---------------------------- MODULE Spec2Model ----------------------------
(***************************************************************************)
(* A model of the chess engine core of 3d-chess: the bitboard move         *)
(* generator (TurnGenerator), the incremental material/piece-square        *)
(* evaluator, the chess board with its move application, the game state    *)
(* facade and the negamax search.                                          *)
(*                                                                         *)
(* A BitBoard (uint64_t) is modelled as the set of its set bit numbers:    *)
(* bit k of the word is field k.  AND, OR, XOR and NOT are intersection,   *)
(* union, symmetric difference and complement in 0..63; a shift moves      *)
(* every bit and drops the bits that leave the 64-bit word.                *)
(***************************************************************************)
EXTENDS Integers, Sequences, FiniteSets, TLC

(***************************************************************************)
(* Board types.                                                            *)
(***************************************************************************)
White == 0
Black == 1
NoPlayer == 2

King == 0
Queen == 1
Bishop == 2
Knight == 3
Rook == 4
Pawn == 5
AllPieces == 6
NoType == 7

ERR == 64

Players == {White, Black}
PieceTypes == King..Pawn
Fields == 0..63

togglePlayerColor(c) == IF c = White THEN Black ELSE White

rankFor(f) == f \div 8
fileFor(f) == f % 8
flipHorizontal(f) == (7 - rankFor(f)) * 8 + fileFor(f)

Piece(player, type) == [player |-> player, type |-> type]
NoPiece == Piece(NoPlayer, NoType)

(***************************************************************************)
(* Bitboard kernel.                                                        *)
(***************************************************************************)
Shl(bb, k) == {f + k : f \in {g \in bb : g + k <= 63}}
Shr(bb, k) == {f - k : f \in {g \in bb : g >= k}}
Not(bb) == Fields \ bb
Xor(a, b) == (a \ b) \cup (b \ a)

\* getFirstOccupiedField: the field of the most significant set bit.
BB_SCAN(bb) == CHOOSE f \in bb : \A g \in bb : g <= f

maskRank(rank) == Shl(0..7, rank * 8)
maskFile(file) == Shl({0, 8, 16, 24, 32, 40, 48, 56}, file)
clearFile(file) == Not(maskFile(file))

FileA == 0
FileB == 1
FileG == 6
FileH == 7

\* The fields of a bitboard, most significant first: the order in which the
\* loops `while (bb != 0) { f = BB_SCAN(bb); BIT_CLEAR(bb, f); ... }` visit them.
RECURSIVE ScanOrder(_)
ScanOrder(bb) ==
    IF bb = {} THEN <<>>
    ELSE LET f == BB_SCAN(bb) IN <<f>> \o ScanOrder(bb \ {f})


(***************************************************************************)
(* State.                                                                  *)
(*  cb        the ChessBoard of the game (GameState::m_chessBoard)         *)
(*  turnList  the generator's list (TurnGenerator::turnList)               *)
(*  shiftUB   what this build's shift instruction yields for a shift count *)
(*            of 64 (undefined behaviour in C++): "wrap" takes the count   *)
(*            modulo 64, "zero" shifts every bit out                       *)
(*  origin    how the board was constructed                                *)
(*  ply       the number of turns applied since construction               *)
(*  last      the turn applied last                                        *)
(*  nm        the Negamax instance and the search() call in progress       *)
(*  tt        a TranspositionTable with the stores and the lookup made     *)
(*  fen       a FEN string, the board parsed from it and the string written*)
(*  ray       the last call of a ray, mask or sliding-piece helper: its    *)
(*            arguments, its result and the shift counts it used           *)
(***************************************************************************)
VARIABLES cb, turnList, shiftUB, origin, ply, last, nm, tt, fen, ray

vars == <<cb, turnList, shiftUB, origin, ply, last, nm, tt, fen, ray>>

\* bb >> k as the hardware does it when k may reach 64.
ShrCount(bb, k) ==
    IF k <= 63 THEN Shr(bb, k)
    ELSE IF shiftUB = "wrap" THEN Shr(bb, k % 64)
    ELSE {}

(***************************************************************************)
(* Direction rays of one piece.                                            *)
(***************************************************************************)
FilesFrom(lo, hi) == UNION {maskFile(i) : i \in lo..hi}

\* getBitsNE without the mask of the files east of the piece.
getBitsNEUnmasked(bbPiece) == Shl({9, 18, 27, 36, 45, 54, 63}, BB_SCAN(bbPiece))

getBitsNE(bbPiece) ==
    LET field == BB_SCAN(bbPiece)
        bb == Shl({9, 18, 27, 36, 45, 54, 63}, field)
        bbMask == FilesFrom((field % 8) + 1, 7)
    IN  bb \cap bbMask

getBitsNW(bbPiece) ==
    LET field == BB_SCAN(bbPiece)
        shift == field - 7
        bb == IF shift < 0
              THEN Shr({14, 21, 28, 35, 42, 49, 56}, shift * (-1))
              ELSE Shl({14, 21, 28, 35, 42, 49, 56}, shift)
        bbMask == FilesFrom(0, (field % 8) - 1)
    IN  bb \cap bbMask

getBitsSE(bbPiece) ==
    LET field == BB_SCAN(bbPiece)
        shift == 56 - field
        bb == IF shift < 0
              THEN Shl({7, 14, 21, 28, 35, 42, 49}, shift * (-1))
              ELSE Shr({7, 14, 21, 28, 35, 42, 49}, shift)
        bbMask == FilesFrom((field % 8) + 1, 7)
    IN  bb \cap bbMask

getBitsSW(bbPiece) ==
    LET field == BB_SCAN(bbPiece)
        bb == Shr({0, 9, 18, 27, 36, 45, 54}, 64 - (field + 1))
        bbMask == FilesFrom(0, (field % 8) - 1)
    IN  bb \cap bbMask

getBitsE(bbPiece) ==
    LET field == BB_SCAN(bbPiece)
        shift == 56 - field
        bb == IF shift > 0
              THEN Shr(57..63, shift)
              ELSE Shl(57..63, shift * (-1))
    IN  bb \cap maskRank(field \div 8)

getBitsW(bbPiece) ==
    LET field == BB_SCAN(bbPiece)
        bb == ShrCount(57..63, 64 - field)
    IN  bb \cap maskRank(field \div 8)

getBitsN(bbPiece) ==
    LET field == BB_SCAN(bbPiece)
    IN  Shl({8, 16, 24, 32, 40, 48, 56}, field)

getBitsS(bbPiece) ==
    LET field == BB_SCAN(bbPiece)
    IN  Shr({7, 15, 23, 31, 39, 47, 55}, 64 - (field + 1))

\* The ray helpers and the mask helpers by name, applied to the bitboard of
\* one piece (the mask helpers to its rank and its file).
RayHelpers == {"getBitsN", "getBitsS", "getBitsE", "getBitsW",
               "getBitsNE", "getBitsNW", "getBitsSE", "getBitsSW"}

MaskHelpers == {"maskRank", "maskFile"}

getBits(helper, bbPiece) ==
    CASE helper = "getBitsN" -> getBitsN(bbPiece)
      [] helper = "getBitsS" -> getBitsS(bbPiece)
      [] helper = "getBitsE" -> getBitsE(bbPiece)
      [] helper = "getBitsW" -> getBitsW(bbPiece)
      [] helper = "getBitsNE" -> getBitsNE(bbPiece)
      [] helper = "getBitsNW" -> getBitsNW(bbPiece)
      [] helper = "getBitsSE" -> getBitsSE(bbPiece)
      [] helper = "getBitsSW" -> getBitsSW(bbPiece)
      [] helper = "maskRank" -> maskRank(BB_SCAN(bbPiece) \div 8)
      [] helper = "maskFile" -> maskFile(BB_SCAN(bbPiece) % 8)

\* The count of the shift that the helper applies to its 64-bit constant.
shiftCount(helper, field) ==
    CASE helper = "getBitsN" -> field
      [] helper = "getBitsS" -> 64 - (field + 1)
      [] helper = "getBitsE" -> IF 56 - field > 0 THEN 56 - field
                                ELSE (56 - field) * (-1)
      [] helper = "getBitsW" -> 64 - field
      [] helper = "getBitsNE" -> field
      [] helper = "getBitsNW" -> IF field - 7 < 0 THEN (field - 7) * (-1)
                                 ELSE field - 7
      [] helper = "getBitsSE" -> IF 56 - field < 0 THEN (56 - field) * (-1)
                                 ELSE 56 - field
      [] helper = "getBitsSW" -> 64 - (field + 1)
      [] helper = "maskRank" -> (field \div 8) * 8
      [] helper = "maskFile" -> field % 8

\* No helper has been called.
NoRay == [helper |-> "none", field |-> ERR, allOppPieces |-> {}, allPieces |-> {},
          bits |-> {}, shifts |-> {}]

(***************************************************************************)
(* Pseudo-move bitboards per piece type.                                   *)
(***************************************************************************)
\* (x << s) | (x << 2s) | ... | (x << ns)
SmearL(bb, s, n) == UNION {Shl(bb, s * i) : i \in 1..n}
SmearR(bb, s, n) == UNION {Shr(bb, s * i) : i \in 1..n}

\* A ray without the last mask: the first occupied field is kept whatever
\* stands on it.
RayMovesOntoAnyPiece(bbRay, smeared, allOppPieces, allPieces) ==
    Xor(smeared \cap bbRay, bbRay)

\* One ray of a sliding piece: the ray up to and including its first
\* occupied field, kept where the field is empty or holds an opponent.
RayMoves(bbRay, smeared, allOppPieces, allPieces) ==
    Xor(smeared \cap bbRay, bbRay) \cap (allOppPieces \cup Not(allPieces))

\* A ray towards the higher fields (blockers smeared with <<) and one
\* towards the lower fields (blockers smeared with >>).
RayUp(bbRay, s, n, allOppPieces, allPieces) ==
    RayMoves(bbRay, SmearL(bbRay \cap allPieces, s, n), allOppPieces, allPieces)

RayDown(bbRay, s, n, allOppPieces, allPieces) ==
    RayMoves(bbRay, SmearR(bbRay \cap allPieces, s, n), allOppPieces, allPieces)

calcBishopTurns(bishops, allOppPieces, allPieces) ==
    RayUp(getBitsNE(bishops), 9, 6, allOppPieces, allPieces)
    \cup RayUp(getBitsNW(bishops), 7, 6, allOppPieces, allPieces)
    \cup RayDown(getBitsSE(bishops), 7, 6, allOppPieces, allPieces)
    \cup RayDown(getBitsSW(bishops), 9, 6, allOppPieces, allPieces)

calcRookTurns(rooks, allOppPieces, allPieces) ==
    RayUp(getBitsE(rooks), 1, 7, allOppPieces, allPieces)
    \cup RayDown(getBitsW(rooks), 1, 7, allOppPieces, allPieces)
    \cup RayUp(getBitsN(rooks), 8, 7, allOppPieces, allPieces)
    \cup RayDown(getBitsS(rooks), 8, 7, allOppPieces, allPieces)

calcQueenTurns(queens, allOppPieces, allPieces) ==
    calcRookTurns(queens, allOppPieces, allPieces) \cup
    calcBishopTurns(queens, allOppPieces, allPieces)

\* The king's steps that leave the fields of his own pieces.
kingTurns(king, allOwnPieces) ==
    LET turn1 == Shl(king \cap clearFile(FileH), 9)
        turn2 == Shl(king, 8)
        turn3 == Shl(king \cap clearFile(FileA), 7)
        turn4 == Shl(king \cap clearFile(FileH), 1)
        turn5 == Shr(king \cap clearFile(FileA), 1)
        turn6 == Shr(king \cap clearFile(FileH), 7)
        turn7 == Shr(king, 8)
        turn8 == Shr(king \cap clearFile(FileA), 9)
    IN  (turn1 \cup turn2 \cup turn3 \cup turn4 \cup
         turn5 \cup turn6 \cup turn7 \cup turn8) \cap Not(allOwnPieces)

\* kingTurns ^= (allOppTurns & kingTurns)
withoutAttacked(bbKingTurns, allOppTurns) ==
    Xor(bbKingTurns, allOppTurns \cap bbKingTurns)

calcKingTurns(king, allOwnPieces, allOppTurns) ==
    withoutAttacked(kingTurns(king, allOwnPieces), allOppTurns)

notAB == clearFile(FileA) \cap clearFile(FileB)
notGH == clearFile(FileH) \cap clearFile(FileG)

calcKnightTurns(knights, allOwnPieces) ==
    LET turn1 == Shl(knights \cap notAB, 6)
        turn2 == Shl(knights \cap clearFile(FileA), 15)
        turn3 == Shl(knights \cap clearFile(FileH), 17)
        turn4 == Shl(knights \cap notGH, 10)
        turn5 == Shr(knights \cap notGH, 6)
        turn6 == Shr(knights \cap clearFile(FileH), 15)
        turn7 == Shr(knights \cap clearFile(FileA), 17)
        turn8 == Shr(knights \cap notAB, 10)
    IN  (turn1 \cup turn2 \cup turn3 \cup turn4 \cup
         turn5 \cup turn6 \cup turn7 \cup turn8) \cap Not(allOwnPieces)

pawnOneStep(pawns, allPieces, player) ==
    IF player = White
    THEN Shl(pawns, 8) \cap Not(allPieces)
    ELSE Shr(pawns, 8) \cap Not(allPieces)

pawnTwoSteps(oneStep, allPieces, player) ==
    IF player = White
    THEN Shl(oneStep \cap maskRank(2), 8) \cap Not(allPieces)
    ELSE Shr(oneStep \cap maskRank(5), 8) \cap Not(allPieces)

withTwoSteps(oneStep, allPieces, player) ==
    oneStep \cup pawnTwoSteps(oneStep, allPieces, player)

\* Pawn moves of one step only.
calcPawnMoveTurnsOneStep(pawns, allPieces, player) ==
    pawnOneStep(pawns, allPieces, player)

calcPawnMoveTurns(pawns, allPieces, player) ==
    withTwoSteps(pawnOneStep(pawns, allPieces, player), allPieces, player)

\* Pawn attacks that know no en-passant square.
calcPawnAttackTurnsOnPieces(pawns, allOppPieces, player, enPassantSquare) ==
    (IF player = White
     THEN Shl(pawns \cap clearFile(FileA), 7) \cup Shl(pawns \cap clearFile(FileH), 9)
     ELSE Shr(pawns \cap clearFile(FileA), 9) \cup Shr(pawns \cap clearFile(FileH), 7))
    \cap allOppPieces

calcPawnAttackTurns(pawns, allOppPieces, player, enPassantSquare) ==
    LET leftAttacks == IF player = White
                       THEN Shl(pawns \cap clearFile(FileA), 7)
                       ELSE Shr(pawns \cap clearFile(FileA), 9)
        rightAttacks == IF player = White
                        THEN Shl(pawns \cap clearFile(FileH), 9)
                        ELSE Shr(pawns \cap clearFile(FileH), 7)
        targets == IF enPassantSquare # ERR
                   THEN allOppPieces \cup {enPassantSquare}
                   ELSE allOppPieces
    IN  (leftAttacks \cup rightAttacks) \cap targets

calcPawnTurns(pawns, allOppPieces, allPieces, player, enPassantSquare) ==
    calcPawnMoveTurns(pawns, allPieces, player) \cup
    calcPawnAttackTurns(pawns, allOppPieces, player, enPassantSquare)

calcShortCastleTurns(player, bbAllPieces, bbAllOppTurns) ==
    IF player = White
    THEN IF bbAllOppTurns \cap {4, 5, 6} = {} /\ 6 \notin bbAllPieces /\ 5 \notin bbAllPieces
         THEN {6} ELSE {}
    ELSE IF bbAllOppTurns \cap {60, 61, 62} = {} /\ 62 \notin bbAllPieces /\ 61 \notin bbAllPieces
         THEN {62} ELSE {}

\* A long castle that looks at the king's field and its destination only.
calcLongCastleTurnsUncrossed(player, bbAllPieces, bbAllOppTurns) ==
    IF player = White
    THEN IF bbAllOppTurns \cap {4, 2} = {} /\ 3 \notin bbAllPieces
            /\ 2 \notin bbAllPieces /\ 1 \notin bbAllPieces
         THEN {2} ELSE {}
    ELSE IF bbAllOppTurns \cap {60, 58} = {} /\ 59 \notin bbAllPieces
            /\ 58 \notin bbAllPieces /\ 57 \notin bbAllPieces
         THEN {58} ELSE {}

calcLongCastleTurns(player, bbAllPieces, bbAllOppTurns) ==
    IF player = White
    THEN IF bbAllOppTurns \cap {4, 3, 2} = {} /\ 3 \notin bbAllPieces
            /\ 2 \notin bbAllPieces /\ 1 \notin bbAllPieces
         THEN {2} ELSE {}
    ELSE IF bbAllOppTurns \cap {60, 59, 58} = {} /\ 59 \notin bbAllPieces
            /\ 58 \notin bbAllPieces /\ 57 \notin bbAllPieces
         THEN {58} ELSE {}

calcMoveTurns(piece, bbPiece, bbAllOppTurns, board) ==
    LET opp == IF piece.player = White THEN Black ELSE White
        own == board.bb[piece.player][AllPieces]
        theirs == board.bb[opp][AllPieces]
    IN  CASE piece.type = King   -> calcKingTurns(bbPiece, own, bbAllOppTurns)
          [] piece.type = Queen  -> calcQueenTurns(bbPiece, theirs, own \cup theirs)
          [] piece.type = Bishop -> calcBishopTurns(bbPiece, theirs, own \cup theirs)
          [] piece.type = Knight -> calcKnightTurns(bbPiece, own)
          [] piece.type = Rook   -> calcRookTurns(bbPiece, theirs, own \cup theirs)
          [] piece.type = Pawn   -> calcPawnTurns(bbPiece, theirs, own \cup theirs,
                                                  piece.player, board.enPassantSquare)
          [] OTHER -> {}

(***************************************************************************)
(* Turns and the move generator.                                           *)
(***************************************************************************)
Turn(piece, from, to, action) ==
    [piece |-> piece, from |-> from, to |-> to, action |-> action]

PromotionActions ==
    <<"PromotionQueen", "PromotionBishop", "PromotionRook", "PromotionKnight">>

\* Turns of a bitboard with no promotion: every destination a plain move.
bitBoardToTurnsAsMoves(piece, from, bbTurns) ==
    [i \in 1..Len(ScanOrder(bbTurns)) |-> Turn(piece, from, ScanOrder(bbTurns)[i], "Move")]

RECURSIVE FieldsToTurns(_, _, _)
FieldsToTurns(piece, from, tos) ==
    IF tos = <<>> THEN <<>>
    ELSE LET to == Head(tos)
             here == IF (rankFor(to) = 7 \/ rankFor(to) = 0) /\ piece.type = Pawn
                     THEN [i \in 1..4 |-> Turn(piece, from, to, PromotionActions[i])]
                     ELSE <<Turn(piece, from, to, "Move")>>
         IN  here \o FieldsToTurns(piece, from, Tail(tos))

bitBoardToTurns(piece, from, bbTurns) ==
    FieldsToTurns(piece, from, ScanOrder(bbTurns))

\* Every field the opponent attacks; the sliding pieces look through the
\* king of the player to move and stop on (and include) his other pieces.
calcAllOppTurns(opp, board) ==
    LET player == togglePlayerColor(opp)
        bbAllPieces == board.bb[White][AllPieces] \cup board.bb[Black][AllPieces]
        bbAllOppPiecesWhitoutKing ==
            Xor(board.bb[player][AllPieces], board.bb[player][King])
        bbAllPiecesWhitoutKing == Xor(bbAllPieces, board.bb[player][King])
        shortCastle == IF board.shortCastleRight[opp]
                       THEN calcShortCastleTurns(opp, bbAllPieces, {}) ELSE {}
        longCastle == IF board.longCastleRight[opp]
                      THEN calcLongCastleTurns(opp, bbAllPieces, {}) ELSE {}
        Sliders(pieceType) ==
            UNION {IF pieceType = Rook
                   THEN calcRookTurns({f}, bbAllOppPiecesWhitoutKing, bbAllPiecesWhitoutKing)
                   ELSE IF pieceType = Queen
                   THEN calcQueenTurns({f}, bbAllOppPiecesWhitoutKing, bbAllPiecesWhitoutKing)
                   ELSE calcBishopTurns({f}, bbAllOppPiecesWhitoutKing, bbAllPiecesWhitoutKing)
                   : f \in board.bb[opp][pieceType]}
    IN  shortCastle \cup longCastle
        \cup calcKingTurns(board.bb[opp][King], {}, {})
        \cup Sliders(Queen) \cup Sliders(Bishop)
        \cup calcKnightTurns(board.bb[opp][Knight], {})
        \cup Sliders(Rook)
        \cup calcPawnAttackTurns(board.bb[opp][Pawn], Fields, opp, board.enPassantSquare)

\* The opponent's pieces in the order the generator's loops visit them:
\* by type from King to Pawn, within a type from the highest field down.
PiecesOfType(pieceType, order) ==
    [i \in 1..Len(order) |-> [type |-> pieceType, pos |-> order[i]]]

RECURSIVE PiecesInOrder(_, _, _)
PiecesInOrder(player, pieceType, board) ==
    IF pieceType > Pawn THEN <<>>
    ELSE PiecesOfType(pieceType, ScanOrder(board.bb[player][pieceType]))
         \o PiecesInOrder(player, pieceType + 1, board)

\* The fields between a checking sliding piece and the king, and the piece.
UnCheckPath(curPiecePos, kingPos) ==
    LET kingRank == rankFor(kingPos)
        kingFile == fileFor(kingPos)
        pieceRank == rankFor(curPiecePos)
        pieceFile == fileFor(curPiecePos)
        fileDir == IF kingFile < pieceFile THEN -1
                   ELSE IF kingFile = pieceFile THEN 0 ELSE 1
        rankSign == IF kingRank < pieceRank THEN -1
                    ELSE IF kingRank = pieceRank THEN 0 ELSE 1
        fileSign == IF kingRank = pieceRank /\ kingFile = pieceFile THEN -10 ELSE fileDir
        dist == IF kingRank < pieceRank THEN pieceRank - kingRank - 1
                ELSE IF kingRank > pieceRank THEN kingRank - pieceRank - 1
                ELSE IF kingFile < pieceFile THEN pieceFile - kingFile - 1
                ELSE IF kingFile > pieceFile THEN kingFile - pieceFile - 1
                ELSE -10
    IN  {(pieceRank + (i * rankSign)) * 8 + (pieceFile + (i * fileSign)) : i \in 1..dist}
        \cup {curPiecePos}

\* The first piece of the opponent, in the order of the loops, whose moves
\* contain the king's board; 0 when there is none.
RECURSIVE firstChecker(_, _, _, _)
firstChecker(opp, pieces, i, board) ==
    IF i > Len(pieces) THEN 0
    ELSE IF board.bb[togglePlayerColor(opp)][King] \cap
                calcMoveTurns(Piece(opp, pieces[i].type), {pieces[i].pos}, {}, board)
            = board.bb[togglePlayerColor(opp)][King]
    THEN i
    ELSE firstChecker(opp, pieces, i + 1, board)

\* calcUnCheckFields without the loop over the fields between a sliding
\* piece and the king.
unCheckFieldsOfPieceOnly(checker, bbKing) == {checker.pos}

unCheckFieldsOf(checker, bbKing) ==
    IF checker.type = Pawn \/ checker.type = Knight \/ checker.type = King
    THEN {checker.pos}
    ELSE UnCheckPath(checker.pos, IF bbKing # {} THEN BB_SCAN(bbKing) ELSE ERR)

unCheckFieldsAt(pieces, first, bbKing) ==
    IF first = 0 THEN {} ELSE unCheckFieldsOf(pieces[first], bbKing)

unCheckFieldsIn(opp, pieces, board) ==
    unCheckFieldsAt(pieces, firstChecker(opp, pieces, 1, board),
                    board.bb[togglePlayerColor(opp)][King])

calcUnCheckFields(opp, board) ==
    unCheckFieldsIn(opp, PiecesInOrder(opp, King, board), board)

RECURSIVE PieceTurns(_, _, _, _, _, _)
PieceTurns(player, pieces, i, bbAllOppTurns, bbUnCheckFields, board) ==
    IF i > Len(pieces) THEN <<>>
    ELSE LET piece == Piece(player, pieces[i].type)
             all == calcMoveTurns(piece, {pieces[i].pos}, bbAllOppTurns, board)
             bbTurns == IF pieces[i].type # King THEN all \cap bbUnCheckFields ELSE all
         IN  bitBoardToTurns(piece, pieces[i].pos, bbTurns)
             \o PieceTurns(player, pieces, i + 1, bbAllOppTurns, bbUnCheckFields, board)

\* The castling turns at the head of the list.
castleTurns(player, board, bbAllPieces, bbAllOppTurns) ==
    (IF board.shortCastleRight[player]
        /\ calcShortCastleTurns(player, bbAllPieces, bbAllOppTurns) # {}
     THEN <<Turn(Piece(player, King), IF player = White THEN 4 ELSE 60,
                 IF player = White THEN 6 ELSE 62, "Castle")>>
     ELSE <<>>)
    \o
    (IF board.longCastleRight[player]
        /\ calcLongCastleTurns(player, bbAllPieces, bbAllOppTurns) # {}
     THEN <<Turn(Piece(player, King), IF player = White THEN 4 ELSE 60,
                 IF player = White THEN 2 ELSE 58, "Castle")>>
     ELSE <<>>)

\* The end of generateTurns with the king in check: the flags and the list.
generatedInCheck(player, board, list) ==
    [board |-> [board EXCEPT
                   !.kingInCheck = [c \in Players |-> c = player],
                   !.checkmate[player] = IF list = <<>> THEN TRUE ELSE @],
     turnList |-> list]

\* The end of generateTurns without the stalemate flag.
generatedNoCheckUnflagged(player, board, list) ==
    [board |-> [board EXCEPT !.kingInCheck = [c \in Players |-> FALSE]],
     turnList |-> list]

\* The end of generateTurns with the king not in check.
generatedNoCheck(player, board, list) ==
    [board |-> [board EXCEPT
                   !.kingInCheck = [c \in Players |-> FALSE],
                   !.stalemate = IF list = <<>> THEN TRUE ELSE @],
     turnList |-> list]

generateTurnsWith(player, board, bbAllOppTurns, pieces) ==
    IF board.bb[player][King] \cap bbAllOppTurns = board.bb[player][King]
    THEN generatedInCheck(player, board,
             PieceTurns(player, pieces, 1, bbAllOppTurns,
                        calcUnCheckFields(togglePlayerColor(player), board), board))
    ELSE generatedNoCheck(player, board,
             castleTurns(player, board,
                         board.bb[White][AllPieces] \cup board.bb[Black][AllPieces],
                         bbAllOppTurns)
             \o PieceTurns(player, pieces, 1, bbAllOppTurns, Fields, board))

\* generateTurns: the board with its flags set, and the turn list.
generateTurns(player, board) ==
    generateTurnsWith(player, board,
                      calcAllOppTurns(togglePlayerColor(player), board),
                      PiecesInOrder(player, King, board))

(***************************************************************************)
(* IncrementalMaterialAndPSTEvaluator.  The tables are indexed by piece    *)
(* type, then by field from Black's point of view.                         *)
(***************************************************************************)
PIECE_SQUARE_TABLE ==
  <<
    <<-30, -40, -40, -50, -50, -40, -40, -30,
      -30, -40, -40, -50, -50, -40, -40, -30,
      -30, -40, -40, -50, -50, -40, -40, -30,
      -30, -40, -40, -50, -50, -40, -40, -30,
      -20, -30, -30, -40, -40, -30, -30, -20,
      -10, -20, -20, -20, -20, -20, -20, -10,
      20, 20, 0, 0, 0, 0, 20, 20,
      20, 30, 10, 0, 0, 10, 30, 20>>,
    <<-20, -10, -10, -5, -5, -10, -10, -20,
      -10, 0, 0, 0, 0, 0, 0, -10,
      -10, 0, 5, 5, 5, 5, 0, -10,
      -5, 0, 5, 5, 5, 5, 0, -5,
      0, 0, 5, 5, 5, 5, 0, -5,
      -10, 5, 5, 5, 5, 5, 0, -10,
      -10, 0, 5, 0, 0, 0, 0, -10,
      -20, -10, -10, -5, -5, -10, -10, -20>>,
    <<-20, -10, -10, -10, -10, -10, -10, -20,
      -10, 0, 0, 0, 0, 0, 0, -10,
      -10, 0, 5, 10, 10, 5, 0, -10,
      -10, 5, 5, 10, 10, 5, 5, -10,
      -10, 0, 10, 10, 10, 10, 0, -10,
      -10, 10, 10, 10, 10, 10, 10, -10,
      -10, 5, 0, 0, 0, 0, 5, -10,
      -20, -10, -10, -10, -10, -10, -10, -20>>,
    <<-50, -40, -30, -30, -30, -30, -40, -50,
      -40, -20, 0, 0, 0, 0, -20, -40,
      -30, 0, 10, 15, 15, 10, 0, -30,
      -30, 5, 15, 20, 20, 15, 5, -30,
      -30, 0, 15, 20, 20, 15, 0, -30,
      -30, 5, 10, 15, 15, 10, 5, -30,
      -40, -20, 0, 5, 5, 0, -20, -40,
      -50, -40, -30, -30, -30, -30, -40, -50>>,
    <<0, 0, 0, 0, 0, 0, 0, 0,
      5, 10, 10, 10, 10, 10, 10, 5,
      -5, 0, 0, 0, 0, 0, 0, -5,
      -5, 0, 0, 0, 0, 0, 0, -5,
      -5, 0, 0, 0, 0, 0, 0, -5,
      -5, 0, 0, 0, 0, 0, 0, -5,
      -5, 0, 0, 0, 0, 0, 0, -5,
      0, 0, 0, 5, 5, 0, 0, 0>>,
    <<0, 0, 0, 0, 0, 0, 0, 0,
      50, 50, 50, 50, 50, 50, 50, 50,
      10, 10, 20, 30, 30, 20, 10, 10,
      5, 5, 10, 25, 25, 10, 5, 5,
      0, 0, 0, 20, 20, 0, 0, 0,
      5, -5, -10, 0, 0, -10, -5, 5,
      5, 10, 10, -20, -20, 10, 10, 5,
      0, 0, 0, 0, 0, 0, 0, 0>>
  >>

PIECE_VALUES == <<20000, 900, 330, 320, 500, 100>>

PST(type, field) == PIECE_SQUARE_TABLE[type + 1][field + 1]
PieceValue(type) == PIECE_VALUES[type + 1]

\* The score of one piece on one field, from White's point of view.
pieceOverallScore(piece, position) ==
    LET psqPosition == IF piece.player = Black THEN position
                       ELSE flipHorizontal(position)
        overall == PieceValue(piece.type) + PST(piece.type, psqPosition)
    IN  IF piece.player = White THEN overall ELSE -overall

RECURSIVE SumScores(_, _)
SumScores(array, position) ==
    IF position > 63 THEN 0
    ELSE (IF array[position].type <= Pawn
          THEN pieceOverallScore(array[position], position) ELSE 0)
         + SumScores(array, position + 1)

estimateFullBoard(array) == SumScores(array, 0)

\* moveIncrement looking White's fields up as it does Black's.
moveIncrementUnflipped(score, turn) ==
    IF turn.piece.player = Black
    THEN score + PST(turn.piece.type, turn.from) - PST(turn.piece.type, turn.to)
    ELSE score - PST(turn.piece.type, turn.from) + PST(turn.piece.type, turn.to)

moveIncrement(score, turn) ==
    IF turn.piece.player = Black
    THEN score + PST(turn.piece.type, turn.from) - PST(turn.piece.type, turn.to)
    ELSE score - PST(turn.piece.type, flipHorizontal(turn.from))
               + PST(turn.piece.type, flipHorizontal(turn.to))

captureIncrement(score, field, piece) ==
    IF piece.player = Black
    THEN score + PST(piece.type, field) + PieceValue(piece.type)
    ELSE score - PST(piece.type, flipHorizontal(field)) - PieceValue(piece.type)

promotionIncrement(score, turn, targetType) ==
    IF turn.piece.player = Black
    THEN score + PST(Pawn, turn.to) + PieceValue(Pawn)
               - PST(targetType, turn.to) - PieceValue(targetType)
    ELSE LET blackPromSquare == flipHorizontal(turn.to)
         IN  score - PST(Pawn, blackPromSquare) - PieceValue(Pawn)
                   + PST(targetType, blackPromSquare) + PieceValue(targetType)

evaluatorScore(score, color) == IF color = White THEN score ELSE -score

(***************************************************************************)
(* IncrementalZobristHasher.  The random 64-bit constants are taken to be  *)
(* linearly independent under XOR, so a hash value is the set of the       *)
(* constants XORed into it and the XOR of a constant toggles its           *)
(* membership.                                                             *)
(***************************************************************************)
PieceKey(piece, field) == (piece.player * 6 + piece.type) * 64 + field
SideKey == 2 * 6 * 64
CastleKey(player, long) == SideKey + 1 + player * 2 + (IF long THEN 1 ELSE 0)
EnPassantKey(file) == SideKey + 5 + file

HashToggle(hash, key) == Xor(hash, {key})

HashEnPassant(hash, square) ==
    IF square = ERR THEN hash ELSE HashToggle(hash, EnPassantKey(fileFor(square)))

\* The hash of a position computed from scratch.
estimateFullHash(board) ==
    {PieceKey(Piece(c, t), f) : <<c, t, f>> \in
        {x \in Players \X PieceTypes \X Fields : x[3] \in board.bb[x[1]][x[2]]}}
    \cup (IF board.nextPlayer = Black THEN {SideKey} ELSE {})
    \cup {CastleKey(c, FALSE) : c \in {d \in Players : board.shortCastleRight[d]}}
    \cup {CastleKey(c, TRUE) : c \in {d \in Players : board.longCastleRight[d]}}
    \cup (IF board.enPassantSquare = ERR THEN {}
          ELSE {EnPassantKey(fileFor(board.enPassantSquare))})

(***************************************************************************)
(* ChessBoard.                                                             *)
(***************************************************************************)
UnionOfTypes(bbs) == UNION {bbs[t] : t \in PieceTypes}

\* updateBitBoards for the colour that moves only.
updateBitBoardsMoverOnly(board) ==
    [board.bb EXCEPT ![board.nextPlayer][AllPieces] =
        UnionOfTypes(board.bb[board.nextPlayer])]

\* updateBitBoards: the AllPieces helper boards, each the union of the
\* six piece-type boards of its colour.
updateBitBoards(board) ==
    [c \in Players |-> [board.bb[c] EXCEPT ![AllPieces] = UnionOfTypes(board.bb[c])]]

\* getBoard: the array representation.
pieceAt(bb, f) ==
    IF \E c \in Players, t \in PieceTypes : f \in bb[c][t]
    THEN LET c == CHOOSE d \in Players : \E t \in PieceTypes : f \in bb[d][t]
             t == CHOOSE u \in PieceTypes :
                     f \in bb[c][u] /\ \A v \in PieceTypes : f \in bb[c][v] => u <= v
         IN  Piece(c, t)
    ELSE NoPiece

getBoard(board) == [f \in Fields |-> pieceAt(board.bb, f)]

\* initBitBoards
initBitBoards(array) ==
    [c \in Players |-> [t \in King..AllPieces |->
        IF t = AllPieces
        THEN {f \in Fields : array[f].player = c /\ array[f].type <= Pawn}
        ELSE {f \in Fields : array[f] = Piece(c, t)}]]

withFullHash(board) == [board EXCEPT !.hash = estimateFullHash(board)]

\* ChessBoard(board, nextPlayer, shortCastleRight, longCastleRight,
\*            enPassantSquare, halfMoveClock, fullMoveClock)
ChessBoard(array, nextPlayer, shortCastleRight, longCastleRight,
           enPassantSquare, halfMoveClock, fullMoveClock) ==
    withFullHash([bb |-> initBitBoards(array),
                  nextPlayer |-> nextPlayer,
                  shortCastleRight |-> shortCastleRight,
                  longCastleRight |-> longCastleRight,
                  enPassantSquare |-> enPassantSquare,
                  halfMoveClock |-> halfMoveClock,
                  fullMoveClock |-> fullMoveClock,
                  kingInCheck |-> [c \in Players |-> FALSE],
                  checkmate |-> [c \in Players |-> FALSE],
                  stalemate |-> FALSE,
                  lastCapturedPiece |-> NoPiece,
                  score |-> estimateFullBoard(array),
                  hash |-> {}])

StartArray ==
    LET back == <<Rook, Knight, Bishop, Queen, King, Bishop, Knight, Rook>>
    IN  [f \in Fields |->
            CASE rankFor(f) = 0 -> Piece(White, back[fileFor(f) + 1])
              [] rankFor(f) = 1 -> Piece(White, Pawn)
              [] rankFor(f) = 6 -> Piece(Black, Pawn)
              [] rankFor(f) = 7 -> Piece(Black, back[fileFor(f) + 1])
              [] OTHER -> NoPiece]

AllRights == [c \in Players |-> TRUE]
NoRights == [c \in Players |-> FALSE]

\* ChessBoard(): the standard starting position.
StartBoard == ChessBoard(StartArray, White, AllRights, AllRights, ERR, 0, 1)

(***************************************************************************)
(* ChessBoard::applyTurn.                                                  *)
(***************************************************************************)
\* updateEnPassantSquare leaving the previous file in the hash.
updateEnPassantSquareKeepingFile(board, turn) ==
    LET double == turn.piece.type = Pawn
                  /\ (rankFor(turn.to) - rankFor(turn.from) = 2
                      \/ rankFor(turn.from) - rankFor(turn.to) = 2)
        square == IF double THEN (turn.from + turn.to) \div 2 ELSE ERR
    IN  [board EXCEPT
            !.enPassantSquare = square,
            !.hash = HashEnPassant(@, square)]

\* Step 1, updateEnPassantSquare: the field a pawn's double step passed
\* over, or ERR.
updateEnPassantSquare(board, turn) ==
    LET double == turn.piece.type = Pawn
                  /\ (rankFor(turn.to) - rankFor(turn.from) = 2
                      \/ rankFor(turn.from) - rankFor(turn.to) = 2)
        square == IF double THEN (turn.from + turn.to) \div 2 ELSE ERR
    IN  [board EXCEPT
            !.enPassantSquare = square,
            !.hash = HashEnPassant(HashEnPassant(@, board.enPassantSquare), square)]

\* addCapturedPiece: takes the piece from the board and records it.
addCapturedPiece(board, capturedPiece, field) ==
    [board EXCEPT
        !.bb[capturedPiece.player][capturedPiece.type] = @ \ {field},
        !.lastCapturedPiece = capturedPiece,
        !.score = captureIncrement(@, field, capturedPiece),
        !.hash = HashToggle(@, PieceKey(capturedPiece, field))]

\* Step 2, capturePiece: an opponent's piece on turn.to, or the pawn one
\* rank behind turn.to when a pawn takes on the previous en-passant square.
capturePiece(board, turn, prevEnPassant) ==
    LET opp == togglePlayerColor(turn.piece.player)
        types == {t \in PieceTypes : turn.to \in board.bb[opp][t]}
        enPassant == turn.piece.type = Pawn
                     /\ fileFor(turn.from) # fileFor(turn.to)
                     /\ turn.to = prevEnPassant
        behind == IF turn.piece.player = White THEN turn.to - 8 ELSE turn.to + 8
        cleared == [board EXCEPT !.lastCapturedPiece = NoPiece]
    IN  IF types # {}
        THEN addCapturedPiece(cleared,
                 Piece(opp, CHOOSE t \in types : \A u \in types : t <= u), turn.to)
        ELSE IF enPassant
        THEN addCapturedPiece(cleared, Piece(opp, Pawn), behind)
        ELSE cleared

\* Step 3, Move: the piece leaves turn.from and stands on turn.to.
applyMoveTurn(board, turn) ==
    [board EXCEPT
        !.bb[turn.piece.player][turn.piece.type] = (@ \ {turn.from}) \cup {turn.to},
        !.score = moveIncrement(@, turn),
        !.hash = HashToggle(HashToggle(@, PieceKey(turn.piece, turn.from)),
                            PieceKey(turn.piece, turn.to))]

\* Step 3, Castle: the king goes two fields towards the rook, the rook to
\* the field the king crossed.
applyCastleTurn(board, turn) ==
    LET short == fileFor(turn.to) = FileG
        rookFrom == IF short THEN turn.to + 1 ELSE turn.to - 2
        rookTo == IF short THEN turn.to - 1 ELSE turn.to + 1
        rook == Piece(turn.piece.player, Rook)
    IN  applyMoveTurn(applyMoveTurn(board, turn), Turn(rook, rookFrom, rookTo, "Move"))

\* Step 3, Promotion: the pawn leaves turn.from and a piece of the chosen
\* type stands on turn.to.  promotionIncrement takes back the pawn at
\* turn.to, so the evaluator is first told of the pawn's move.
applyPromotionTurn(board, turn, pieceType) ==
    [board EXCEPT
        !.bb[turn.piece.player][Pawn] = @ \ {turn.from},
        !.bb[turn.piece.player][pieceType] = @ \cup {turn.to},
        !.score = promotionIncrement(moveIncrement(@, turn), turn, pieceType),
        !.hash = HashToggle(HashToggle(@, PieceKey(turn.piece, turn.from)),
                            PieceKey(Piece(turn.piece.player, pieceType), turn.to))]

PromotionType(action) ==
    CASE action = "PromotionQueen" -> Queen
      [] action = "PromotionBishop" -> Bishop
      [] action = "PromotionRook" -> Rook
      [] action = "PromotionKnight" -> Knight
      [] OTHER -> NoType

\* The rights as the turn alone leaves them, whatever they were before.
RightsAfterForgetful(board, turn) ==
    LET player == turn.piece.player
        opp == togglePlayerColor(player)
        ownH == IF player = White THEN 7 ELSE 63
        ownA == IF player = White THEN 0 ELSE 56
        oppH == IF opp = White THEN 7 ELSE 63
        oppA == IF opp = White THEN 0 ELSE 56
        captured == board.lastCapturedPiece # NoPiece
        LoseShort(c) == (c = player /\ (turn.piece.type = King
                                        \/ (turn.piece.type = Rook /\ turn.from = ownH)))
                        \/ (c = opp /\ captured /\ turn.to = oppH)
        LoseLong(c) == (c = player /\ (turn.piece.type = King
                                       \/ (turn.piece.type = Rook /\ turn.from = ownA)))
                       \/ (c = opp /\ captured /\ turn.to = oppA)
    IN  [short |-> [c \in Players |-> ~LoseShort(c)],
         long |-> [c \in Players |-> ~LoseLong(c)]]

\* The rights left when a capture on a rook's corner is not looked at.
RightsAfterCaptureBlind(board, turn) ==
    LET player == turn.piece.player
        ownH == IF player = White THEN 7 ELSE 63
        ownA == IF player = White THEN 0 ELSE 56
        LoseShort(c) == c = player /\ (turn.piece.type = King
                                       \/ (turn.piece.type = Rook /\ turn.from = ownH))
        LoseLong(c) == c = player /\ (turn.piece.type = King
                                      \/ (turn.piece.type = Rook /\ turn.from = ownA))
    IN  [short |-> [c \in Players |-> board.shortCastleRight[c] /\ ~LoseShort(c)],
         long |-> [c \in Players |-> board.longCastleRight[c] /\ ~LoseLong(c)]]

\* Step 4, updateCastlingRights: the rights left after the turn.
RightsAfter(board, turn) ==
    LET player == turn.piece.player
        opp == togglePlayerColor(player)
        ownH == IF player = White THEN 7 ELSE 63
        ownA == IF player = White THEN 0 ELSE 56
        oppH == IF opp = White THEN 7 ELSE 63
        oppA == IF opp = White THEN 0 ELSE 56
        captured == board.lastCapturedPiece # NoPiece
        LoseShort(c) == (c = player /\ (turn.piece.type = King
                                        \/ (turn.piece.type = Rook /\ turn.from = ownH)))
                        \/ (c = opp /\ captured /\ turn.to = oppH)
        LoseLong(c) == (c = player /\ (turn.piece.type = King
                                       \/ (turn.piece.type = Rook /\ turn.from = ownA)))
                       \/ (c = opp /\ captured /\ turn.to = oppA)
    IN  [short |-> [c \in Players |-> board.shortCastleRight[c] /\ ~LoseShort(c)],
         long |-> [c \in Players |-> board.longCastleRight[c] /\ ~LoseLong(c)]]

setCastlingRights(board, after) ==
    [board EXCEPT
        !.shortCastleRight = after.short,
        !.longCastleRight = after.long,
        !.hash = Xor(@, {CastleKey(c, FALSE) : c \in
                            {d \in Players : board.shortCastleRight[d] # after.short[d]}}
                        \cup {CastleKey(c, TRUE) : c \in
                            {d \in Players : board.longCastleRight[d] # after.long[d]}})]

updateCastlingRights(board, turn) ==
    setCastlingRights(board, RightsAfter(board, turn))

\* The half-move clock counting full moves.
updateClocksPerFullMove(board, turn) ==
    [board EXCEPT
        !.halfMoveClock = IF turn.piece.type = Pawn \/ board.lastCapturedPiece # NoPiece
                          THEN 0
                          ELSE IF board.nextPlayer = Black THEN @ + 1 ELSE @,
        !.fullMoveClock = IF board.nextPlayer = Black THEN @ + 1 ELSE @]

\* Step 5: the move clocks.
updateClocks(board, turn) ==
    [board EXCEPT
        !.halfMoveClock = IF turn.piece.type = Pawn \/ board.lastCapturedPiece # NoPiece
                          THEN 0 ELSE @ + 1,
        !.fullMoveClock = IF board.nextPlayer = Black THEN @ + 1 ELSE @]

\* An applyTurn that leaves the player to move as he was.
toggleNextPlayerKept(board) == board

\* Step 7: the other player is next.
toggleNextPlayer(board) ==
    [board EXCEPT
        !.nextPlayer = togglePlayerColor(@),
        !.hash = HashToggle(@, SideKey)]

\* Step 6: the AllPieces helper boards.
withBitBoards(board) == [board EXCEPT !.bb = updateBitBoards(board)]

applyTurn(board, turn) ==
    LET s1 == updateEnPassantSquare(board, turn)
        s2 == capturePiece(s1, turn, board.enPassantSquare)
        s3 == CASE turn.action = "Move" -> applyMoveTurn(s2, turn)
                [] turn.action = "Castle" -> applyCastleTurn(s2, turn)
                [] PromotionType(turn.action) # NoType ->
                       applyPromotionTurn(s2, turn, PromotionType(turn.action))
                [] OTHER -> s2
        s4 == updateCastlingRights(s3, turn)
        s5 == updateClocks(s4, turn)
    IN  toggleNextPlayer(withBitBoards(s5))

\* Game-over detection.
isDrawDueTo50MovesRule(board) == board.halfMoveClock >= 100

isGameOver(board) ==
    board.checkmate[White] \/ board.checkmate[Black] \/ board.stalemate
    \/ isDrawDueTo50MovesRule(board)

getWinner(board) ==
    IF board.checkmate[White] THEN Black
    ELSE IF board.checkmate[Black] THEN White
    ELSE NoPlayer

(***************************************************************************)
(* GameState: the board together with the generator's list for the player  *)
(* to move.  Construction and applyTurn each end with a generation pass.   *)
(***************************************************************************)
GameState(board) == generateTurns(board.nextPlayer, board)

GameStateApplyTurn(state, turn) == GameState(applyTurn(state.board, turn))

(***************************************************************************)
(* Boards given field by field (what ChessBoard::fromFEN hands to the       *)
(* array constructor).  Field numbers: a1 = 0, h1 = 7, a8 = 56, h8 = 63.    *)
(***************************************************************************)
Position(pieces) ==
    [f \in Fields |-> IF f \in DOMAIN pieces THEN pieces[f] ELSE NoPiece]

WK == Piece(White, King)
WQ == Piece(White, Queen)
WR == Piece(White, Rook)
WN == Piece(White, Knight)
WP == Piece(White, Pawn)
BK == Piece(Black, King)
BR == Piece(Black, Rook)
BN == Piece(Black, Knight)
BP == Piece(Black, Pawn)

\* r3k2r/p6p/8/8/8/8/P6P/R3K2R w KQkq - 0 1
CastleBoard ==
    ChessBoard(Position(0 :> WR @@ 4 :> WK @@ 7 :> WR @@ 8 :> WP @@ 15 :> WP @@
                        48 :> BP @@ 55 :> BP @@ 56 :> BR @@ 60 :> BK @@ 63 :> BR),
               White, AllRights, AllRights, ERR, 0, 1)

\* r3k3/8/8/8/8/8/8/R3K3 w Qq - 0 1
CornerBoard ==
    ChessBoard(Position(0 :> WR @@ 4 :> WK @@ 56 :> BR @@ 60 :> BK),
               White, NoRights, AllRights, ERR, 0, 1)

\* 1n6/P7/8/8/8/8/7p/k3K3 w - - 0 1
PromotionBoard ==
    ChessBoard(Position(0 :> BK @@ 4 :> WK @@ 15 :> BP @@ 48 :> WP @@ 57 :> BN),
               White, NoRights, NoRights, ERR, 0, 1)

\* 4k3/8/8/3pP3/8/8/8/4K3 w - d6 0 3
EnPassantBoard ==
    ChessBoard(Position(4 :> WK @@ 35 :> BP @@ 36 :> WP @@ 60 :> BK),
               White, NoRights, NoRights, 43, 0, 3)

\* 4k3/3p4/8/4P3/8/3p4/4P3/4K3 b - - 0 1
DoubleStepBoard ==
    ChessBoard(Position(4 :> WK @@ 12 :> WP @@ 19 :> BP @@ 36 :> WP @@ 51 :> BP @@ 60 :> BK),
               Black, NoRights, NoRights, ERR, 0, 1)

\* 8/k7/8/8/8/8/K7/8 b - - 99 90
FiftyBoard ==
    ChessBoard(Position(8 :> WK @@ 48 :> BK), Black, NoRights, NoRights, ERR, 99, 90)

\* 7k/8/6K1/8/8/8/8/R7 w - - 99 60
FiftyMateBoard ==
    ChessBoard(Position(0 :> WR @@ 46 :> WK @@ 63 :> BK),
               White, NoRights, NoRights, ERR, 99, 60)

\* 7k/8/6K1/8/8/8/8/5Q2 w - - 0 1
StalemateBoard ==
    ChessBoard(Position(5 :> WQ @@ 46 :> WK @@ 63 :> BK),
               White, NoRights, NoRights, ERR, 0, 1)

Boards ==
    {CastleBoard, CornerBoard, PromotionBoard, EnPassantBoard, DoubleStepBoard,
     FiftyBoard, FiftyMateBoard, StalemateBoard}

(***************************************************************************)
(* Forsyth-Edwards Notation.  A FEN string is a sequence of characters:    *)
(* six fields separated by blanks.  fromFEN reads the fields into the      *)
(* members of a ChessBoard, toFEN writes the members out.                  *)
(***************************************************************************)
\* No string read yet.
NoFen == [input |-> <<>>, parsed |-> <<>>, output |-> <<>>]

Digits == <<"0", "1", "2", "3", "4", "5", "6", "7", "8", "9">>

IsDigit(c) == \E d \in 1..10 : Digits[d] = c

DigitOf(c) == (CHOOSE d \in 1..10 : Digits[d] = c) - 1

FileLetters == <<"a", "b", "c", "d", "e", "f", "g", "h">>

FenLetters ==
    <<"K", "Q", "B", "N", "R", "P", "k", "q", "b", "n", "r", "p">>

FenPieces ==
    <<WK, WQ, Piece(White, Bishop), WN, WR, WP,
      BK, Piece(Black, Queen), Piece(Black, Bishop), BN, BR, BP>>

pieceOfLetter(c) == FenPieces[CHOOSE i \in 1..12 : FenLetters[i] = c]

letterOfPiece(piece) == FenLetters[CHOOSE i \in 1..12 : FenPieces[i] = piece]

RECURSIVE parseNumber(_, _)
parseNumber(chars, value) ==
    IF chars = <<>> THEN value
    ELSE parseNumber(Tail(chars), value * 10 + DigitOf(Head(chars)))

RECURSIVE formatNumber(_)
formatNumber(n) ==
    IF n < 10 THEN <<Digits[n + 1]>>
    ELSE formatNumber(n \div 10) \o <<Digits[(n % 10) + 1]>>

\* The fields of a string between its separators.
RECURSIVE splitOn(_, _, _)
splitOn(chars, separator, field) ==
    IF chars = <<>> THEN <<field>>
    ELSE IF Head(chars) = separator
    THEN <<field>> \o splitOn(Tail(chars), separator, <<>>)
    ELSE splitOn(Tail(chars), separator, Append(field, Head(chars)))

\* Piece placement, rank 8 first: a letter puts a piece on the field and
\* goes one field on, a digit skips that many fields, a slash goes to the
\* start of the rank below.
RECURSIVE parsePlacement(_, _, _)
parsePlacement(chars, field, array) ==
    IF chars = <<>> THEN array
    ELSE IF Head(chars) = "/" THEN parsePlacement(Tail(chars), field - 16, array)
    ELSE IF IsDigit(Head(chars))
    THEN parsePlacement(Tail(chars), field + DigitOf(Head(chars)), array)
    ELSE parsePlacement(Tail(chars), field + 1,
                        [array EXCEPT ![field] = pieceOfLetter(Head(chars))])

parseRights(chars, short, long) ==
    [shortCastleRight |-> [c \in Players |->
                              \E i \in 1..Len(chars) : chars[i] = short[c + 1]],
     longCastleRight |-> [c \in Players |->
                             \E i \in 1..Len(chars) : chars[i] = long[c + 1]]]

parseSquare(chars) ==
    IF chars = <<"-">> THEN ERR
    ELSE (CHOOSE i \in 1..8 : FileLetters[i] = chars[1]) - 1
         + 8 * (DigitOf(chars[2]) - 1)

fromFENFields(fields, rights) ==
    ChessBoard(parsePlacement(fields[1], 56, [f \in Fields |-> NoPiece]),
               IF fields[2] = <<"w">> THEN White ELSE Black,
               rights.shortCastleRight, rights.longCastleRight,
               parseSquare(fields[4]),
               parseNumber(fields[5], 0), parseNumber(fields[6], 0))

\* ChessBoard::fromFEN
fromFEN(text) ==
    fromFENFields(splitOn(text, " ", <<>>),
                  parseRights(splitOn(text, " ", <<>>)[3], <<"K", "k">>, <<"Q", "q">>))

emptyRun(run) == IF run > 0 THEN <<Digits[run + 1]>> ELSE <<>>

RECURSIVE formatRank(_, _, _, _)
formatRank(array, rank, file, run) ==
    IF file = 8 THEN emptyRun(run)
    ELSE IF array[rank * 8 + file] = NoPiece
    THEN formatRank(array, rank, file + 1, run + 1)
    ELSE emptyRun(run) \o <<letterOfPiece(array[rank * 8 + file])>>
         \o formatRank(array, rank, file + 1, 0)

RECURSIVE formatPlacement(_, _)
formatPlacement(array, rank) ==
    formatRank(array, rank, 0, 0)
    \o (IF rank = 0 THEN <<>> ELSE <<"/">> \o formatPlacement(array, rank - 1))

formatRightsOr(chars) == IF chars = <<>> THEN <<"-">> ELSE chars

formatRights(board) ==
    formatRightsOr((IF board.shortCastleRight[White] THEN <<"K">> ELSE <<>>)
                   \o (IF board.longCastleRight[White] THEN <<"Q">> ELSE <<>>)
                   \o (IF board.shortCastleRight[Black] THEN <<"k">> ELSE <<>>)
                   \o (IF board.longCastleRight[Black] THEN <<"q">> ELSE <<>>))

formatSquare(field) ==
    IF field = ERR THEN <<"-">>
    ELSE <<FileLetters[fileFor(field) + 1], Digits[rankFor(field) + 2]>>

\* A toFEN that writes the castling field as `-` whatever the rights.
toFENWithoutRights(board) ==
    formatPlacement(getBoard(board), 7)
    \o <<" ">> \o (IF board.nextPlayer = White THEN <<"w">> ELSE <<"b">>)
    \o <<" ", "-", " ">> \o formatSquare(board.enPassantSquare)
    \o <<" ">> \o formatNumber(board.halfMoveClock)
    \o <<" ">> \o formatNumber(board.fullMoveClock)

\* ChessBoard::toFEN
toFEN(board) ==
    formatPlacement(getBoard(board), 7)
    \o <<" ">> \o (IF board.nextPlayer = White THEN <<"w">> ELSE <<"b">>)
    \o <<" ">> \o formatRights(board)
    \o <<" ">> \o formatSquare(board.enPassantSquare)
    \o <<" ">> \o formatNumber(board.halfMoveClock)
    \o <<" ">> \o formatNumber(board.fullMoveClock)

(***************************************************************************)
(* Games from the standard start, each a list of turns of the generator's   *)
(* lists, named by <<from, to, action>>.                                    *)
(***************************************************************************)
\* The turns of a list with the given <<from, to, action>>.
TurnsNamed(list, m) ==
    {list[j] : j \in {k \in 1..Len(list) : /\ list[k].from = m[1]
                                           /\ list[k].to = m[2]
                                           /\ list[k].action = m[3]}}

RECURSIVE Replay(_, _)
Replay(state, line) ==
    IF line = <<>> THEN state
    ELSE CHOOSE end \in
            {Replay(next, Tail(line)) :
                next \in {GameStateApplyTurn(state, turn) :
                             turn \in TurnsNamed(state.turnList, Head(line))}} : TRUE

\* 1.d4 e5 2.dxe5 Bb4+ 3.Qd2 Qe7 4.h3 Kd8 5.e6
PinLine ==
    <<  <<11, 27, "Move">>, <<52, 36, "Move">>, <<27, 36, "Move">>, <<61, 25, "Move">>,
        <<3, 11, "Move">>, <<59, 52, "Move">>, <<15, 23, "Move">>, <<60, 59, "Move">>,
        <<36, 44, "Move">> >>

\* 1.f3 e5 2.g4
FoolsLine ==
    << <<13, 21, "Move">>, <<52, 36, "Move">>, <<14, 30, "Move">> >>

OpeningLines == {PinLine, FoolsLine}

\* 1.e4 e5 2.Nf3 Nf6 3.Bc4 Bc5: both sides have cleared their king's side.
ItalianLine ==
    << <<12, 28, "Move">>, <<52, 36, "Move">>, <<6, 21, "Move">>, <<62, 45, "Move">>,
       <<5, 26, "Move">>, <<61, 34, "Move">> >>

\* ... 4.Rg1 a6 5.Rh1 a5: the rook has left h1 and come back.
RookBackLine ==
    ItalianLine \o << <<7, 6, "Move">>, <<48, 40, "Move">>, <<6, 7, "Move">>,
                      <<40, 32, "Move">> >>

\* ... 4.Ke2 a6 5.Ke1 a5: the king has left e1 and come back.
KingBackLine ==
    ItalianLine \o << <<4, 12, "Move">>, <<48, 40, "Move">>, <<12, 4, "Move">>,
                      <<40, 32, "Move">> >>

\* 1.b3 g6 2.Bb2 Nf6 3.Bxf6 Bg7 4.Bxg7 a6 5.Bxh8 a5 6.Bd4: the rook of h8 has
\* been taken on its corner and f8, g8, h8 are empty.
RookTakenLine ==
    << <<9, 17, "Move">>, <<54, 46, "Move">>, <<2, 9, "Move">>, <<62, 45, "Move">>,
       <<9, 45, "Move">>, <<61, 54, "Move">>, <<45, 54, "Move">>, <<48, 40, "Move">>,
       <<54, 63, "Move">>, <<40, 32, "Move">>, <<63, 27, "Move">> >>

CastleLines == {ItalianLine, RookBackLine, KingBackLine, RookTakenLine}

(***************************************************************************)
(* Scores.  WIN_SCORE lies above every score the evaluator can give and    *)
(* MIN_SCORE, MAX_SCORE enclose every score of a search.                    *)
(***************************************************************************)
WIN_SCORE == 1000000
LOSE_SCORE == -WIN_SCORE
MAX_SCORE == 2000000
MIN_SCORE == -MAX_SCORE

Max(a, b) == IF a >= b THEN a ELSE b
Min(a, b) == IF a <= b THEN a ELSE b

\* ChessBoard::getScore(color, depth): a decided game counts by its depth,
\* every other position by the evaluator.
getScore(board, color, depth) ==
    IF isGameOver(board) /\ getWinner(board) = color THEN WIN_SCORE - depth
    ELSE IF isGameOver(board) /\ getWinner(board) = togglePlayerColor(color)
         THEN LOSE_SCORE + depth
    ELSE evaluatorScore(board.score, color)

\* GameState::getScore(depth): from the next player's point of view.
GameStateGetScore(state, depth) ==
    getScore(state.board, state.board.nextPlayer, depth)

(***************************************************************************)
(* TranspositionTable.  The table is taken to be large enough that no two  *)
(* hashes of one search share a slot, so it is a function from the hashes  *)
(* stored to their entries.                                                *)
(***************************************************************************)
EmptyTable == <<>>

NoEntry == [boundType |-> "NONE"]

lookup(table, hash) ==
    IF hash \in DOMAIN table THEN table[hash] ELSE NoEntry

\* Always replace.
maybeUpdate(table, entry) == (entry.hash :> entry) @@ table

(***************************************************************************)
(* TranspositionTable as an object of its own: a direct-mapped table of    *)
(* TableSize slots over numeric hashes.  `stores` is the history of the    *)
(* entries handed to maybeUpdate, kept for the properties only.            *)
(***************************************************************************)
TableSize == 3

MaxStores == 3

\* The hashes asked for and stored: some of them beyond the table's size.
Hashes == 0..(TableSize + 1)

NewTable ==
    [slots |-> [i \in 0..(TableSize - 1) |-> NoEntry], stores |-> <<>>,
     asked |-> <<>>, found |-> NoEntry]

\* lookup(hash): the entry of slot hash mod size if its hash is the hash
\* asked for, otherwise a miss.
TableLookup(slots, hash) ==
    IF slots[hash % TableSize].boundType # "NONE" /\ slots[hash % TableSize].hash = hash
    THEN slots[hash % TableSize]
    ELSE NoEntry

\* A maybeUpdate that keeps the entry of the greater depth.
TableMaybeUpdateKeepingDeeper(slots, entry) ==
    IF slots[entry.hash % TableSize].boundType # "NONE"
       /\ slots[entry.hash % TableSize].depth > entry.depth
    THEN slots
    ELSE [slots EXCEPT ![entry.hash % TableSize] = entry]

\* maybeUpdate(entry): always replace.
TableMaybeUpdate(slots, entry) ==
    [slots EXCEPT ![entry.hash % TableSize] = entry]

(***************************************************************************)
(* Negamax<TGameState, AB_CUTOFF_ENABLED, MOVE_ORDERING_ENABLED,           *)
(* TRANSPOSITION_TABLES_ENABLED>.  An instantiation also fixes what the    *)
(* build's std::sort does with options of equal score, which the language  *)
(* leaves open: "keep" leaves them in the generator's order, "reverse"     *)
(* turns that order around.                                                *)
(***************************************************************************)
NoTurn == Turn(NoPiece, ERR, ERR, "Pass")

Instantiations ==
    {inst \in [AB_CUTOFF_ENABLED : BOOLEAN,
               MOVE_ORDERING_ENABLED : BOOLEAN,
               TRANSPOSITION_TABLES_ENABLED : BOOLEAN,
               sortTies : {"keep", "reverse"}] :
        inst.MOVE_ORDERING_ENABLED \/ inst.sortTies = "keep"}

\* Negamax<GameState, false, false, false>: the plain search.
PlainNegamax ==
    [AB_CUTOFF_ENABLED |-> FALSE, MOVE_ORDERING_ENABLED |-> FALSE,
     TRANSPOSITION_TABLES_ENABLED |-> FALSE, sortTies |-> "keep"]

\* Negamax<>: everything enabled.
DefaultNegamax ==
    [AB_CUTOFF_ENABLED |-> TRUE, MOVE_ORDERING_ENABLED |-> TRUE,
     TRANSPOSITION_TABLES_ENABLED |-> TRUE, sortTies |-> "keep"]

NegamaxResult(score, turn) == [score |-> score, turn |-> turn]

\* A result together with the table the call leaves behind.
Returned(score, turn, table) == [score |-> score, turn |-> turn, table |-> table]

estimateFromEntry(state, depth, entry) ==
    IF entry = NoEntry THEN -GameStateGetScore(state, depth)
    ELSE IF entry.boundType = "UPPER" THEN -MIN_SCORE
    ELSE -entry.score

estimateScoreFor(state, depth, table, inst) ==
    IF inst.TRANSPOSITION_TABLES_ENABLED
    THEN estimateFromEntry(state, depth, lookup(table, state.board.hash))
    ELSE -GameStateGetScore(state, depth)

Option(state, turn, score) == [state |-> state, turn |-> turn, score |-> score]

OptionAfter(newState, turn, depth, table, inst) ==
    Option(newState, turn, estimateScoreFor(newState, depth, table, inst))

\* The first loop: every turn applied to a copy of the state.
RECURSIVE consideredOptions(_, _, _, _, _)
consideredOptions(state, i, depth, table, inst) ==
    IF i > Len(state.turnList) THEN <<>>
    ELSE <<OptionAfter(GameStateApplyTurn(state, state.turnList[i]),
                       state.turnList[i], depth + 1, table, inst)>>
         \o consideredOptions(state, i + 1, depth, table, inst)

\* Option::operator< makes the sort descending by score.
SortsBefore(options, ties, j, i) ==
    \/ options[j].score > options[i].score
    \/ /\ options[j].score = options[i].score
       /\ IF ties = "keep" THEN j < i ELSE j > i

RECURSIVE SortedFrom(_, _, _)
SortedFrom(options, ties, k) ==
    IF k > Len(options) THEN <<>>
    ELSE <<options[CHOOSE i \in 1..Len(options) :
                Cardinality({j \in 1..Len(options) :
                                SortsBefore(options, ties, j, i)}) = k - 1]>>
         \o SortedFrom(options, ties, k + 1)

sortOptions(options, inst) ==
    IF inst.MOVE_ORDERING_ENABLED THEN SortedFrom(options, inst.sortTies, 1)
    ELSE options

orderedOptions(state, depth, table, inst) ==
    sortOptions(consideredOptions(state, 1, depth, table, inst), inst)

\* The probe finds an entry that is deep enough.
tableHit(entry, pliesLeft) ==
    entry # NoEntry /\ entry.depth >= pliesLeft

alphaWith(entry, alpha) ==
    IF entry.boundType = "LOWER" THEN Max(alpha, entry.score) ELSE alpha

betaWith(entry, beta) ==
    IF entry.boundType = "UPPER" THEN Min(beta, entry.score) ELSE beta

\* The probe answers the call without a search.
probeReturns(entry, alpha, beta, inst) ==
    \/ entry.boundType = "EXACT"
    \/ inst.AB_CUTOFF_ENABLED /\ alphaWith(entry, alpha) >= betaWith(entry, beta)

\* The bound kinds of the two cutoff cases exchanged.
boundTypeOfExchanged(score, initialAlpha, beta) ==
    IF score <= initialAlpha THEN "LOWER"
    ELSE IF score >= beta THEN "UPPER"
    ELSE "EXACT"

boundTypeOf(score, initialAlpha, beta) ==
    IF score <= initialAlpha THEN "UPPER"
    ELSE IF score >= beta THEN "LOWER"
    ELSE "EXACT"

\* An entry stored without its turn.
TranspositionTableEntryWithoutTurn(state, pliesLeft, initialAlpha, beta, bestResult) ==
    [score |-> bestResult.score,
     turn |-> NoTurn,
     hash |-> state.board.hash,
     depth |-> pliesLeft,
     boundType |-> boundTypeOf(bestResult.score, initialAlpha, beta)]

TranspositionTableEntry(state, pliesLeft, initialAlpha, beta, bestResult) ==
    [score |-> bestResult.score,
     turn |-> bestResult.turn,
     hash |-> state.board.hash,
     depth |-> pliesLeft,
     boundType |-> boundTypeOf(bestResult.score, initialAlpha, beta)]

\* The table after the store at the end of a frame.
tableAfter(table, state, pliesLeft, initialAlpha, beta, bestResult, inst) ==
    IF inst.TRANSPOSITION_TABLES_ENABLED
    THEN maybeUpdate(table, TranspositionTableEntry(state, pliesLeft, initialAlpha,
                                                    beta, bestResult))
    ELSE table

\* The comparison the wrong way round.
improvedWhenLower(bestResult, turn, score) ==
    IF score < bestResult.score THEN NegamaxResult(score, turn) ELSE bestResult

\* `if (result > bestResult)`, with result already negated.
improved(bestResult, turn, score) ==
    IF score > bestResult.score THEN NegamaxResult(score, turn) ELSE bestResult

withTable(bestResult, table) ==
    Returned(bestResult.score, bestResult.turn, table)

(***************************************************************************)
(* search_recurse with no abort() during the call: search() has cleared    *)
(* m_abort and every poll reads false.                                     *)
(***************************************************************************)
RECURSIVE search_recurse(_, _, _, _, _, _, _)
RECURSIVE searchOptions(_, _, _, _, _, _, _, _, _)

\* The cutoff taken against the negated bound.
nextOptionNegatedBeta(options, i, depth, maxDepth, alpha, beta, bestResult, table, inst) ==
    IF alpha >= -beta /\ inst.AB_CUTOFF_ENABLED
    THEN withTable(bestResult, table)
    ELSE searchOptions(options, i + 1, depth, maxDepth, alpha, beta, bestResult,
                       table, inst)

\* The end of the loop body: the cutoff, or the next option.
nextOption(options, i, depth, maxDepth, alpha, beta, bestResult, table, inst) ==
    IF alpha >= beta /\ inst.AB_CUTOFF_ENABLED
    THEN withTable(bestResult, table)
    ELSE searchOptions(options, i + 1, depth, maxDepth, alpha, beta, bestResult,
                       table, inst)

\* The loop body once the recursive call has returned.
afterOption(options, i, depth, maxDepth, alpha, beta, bestResult, inst, result) ==
    nextOption(options, i, depth, maxDepth, Max(alpha, -result.score), beta,
               improved(bestResult, options[i].turn, -result.score),
               result.table, inst)

searchOptions(options, i, depth, maxDepth, alpha, beta, bestResult, table, inst) ==
    IF i > Len(options) THEN withTable(bestResult, table)
    ELSE afterOption(options, i, depth, maxDepth, alpha, beta, bestResult, inst,
                     search_recurse(options[i].state, depth + 1, maxDepth,
                                    -beta, -alpha, table, inst))

storeResult(state, pliesLeft, initialAlpha, beta, inst, found) ==
    Returned(found.score, found.turn,
             tableAfter(found.table, state, pliesLeft, initialAlpha, beta, found, inst))

searchTurns(state, depth, maxDepth, initialAlpha, alpha, beta, table, inst) ==
    storeResult(state, maxDepth - depth, initialAlpha, beta, inst,
                searchOptions(orderedOptions(state, depth, table, inst), 1, depth,
                              maxDepth, alpha, beta,
                              NegamaxResult(MIN_SCORE, NoTurn), table, inst))

searchProbed(state, depth, maxDepth, alpha, beta, table, inst, entry) ==
    IF ~tableHit(entry, maxDepth - depth)
    THEN searchTurns(state, depth, maxDepth, alpha, alpha, beta, table, inst)
    ELSE IF probeReturns(entry, alpha, beta, inst)
    THEN Returned(entry.score, entry.turn, table)
    ELSE searchTurns(state, depth, maxDepth, alpha, alphaWith(entry, alpha),
                     betaWith(entry, beta), table, inst)

search_recurse(state, depth, maxDepth, alpha, beta, table, inst) ==
    IF isGameOver(state.board) \/ maxDepth - depth = 0
    THEN Returned(GameStateGetScore(state, depth), NoTurn, table)
    ELSE searchProbed(state, depth, maxDepth, alpha, beta, table, inst,
                      IF inst.TRANSPOSITION_TABLES_ENABLED
                      THEN lookup(table, state.board.hash) ELSE NoEntry)

\* search() of a newly constructed instance.
search(state, maxDepth, inst) ==
    search_recurse(state, 0, maxDepth, MIN_SCORE, MAX_SCORE, EmptyTable, inst)

(***************************************************************************)
(* A Negamax instance as its constructor leaves it.                        *)
(*  phase     where a search() call stands: "idle" before the call,        *)
(*            "entered" once called, "running" inside search_recurse,      *)
(*            "returned" afterwards                                        *)
(*  inst, maxDepth       the instantiation and the depth asked for         *)
(*  m_abort, table       the members m_abort and m_transpositionTable      *)
(*  stack, ret           the frames of search_recurse, innermost last, and *)
(*            the result a frame has just returned to its caller           *)
(*  result    what search() returned                                       *)
(*  aborted, passes      whether abort() has been called during the call,  *)
(*            and the move-generation passes begun since                   *)
(*  seen      whether a poll of the call has read m_abort as true          *)
(*  calls     the number of search() calls made on the instance            *)
(***************************************************************************)
NewNegamax ==
    [phase |-> "idle", inst |-> DefaultNegamax, maxDepth |-> 0,
     m_abort |-> FALSE, table |-> EmptyTable, stack |-> <<>>, ret |-> <<>>,
     result |-> NegamaxResult(0, NoTurn), aborted |-> FALSE, passes |-> 0,
     seen |-> FALSE, calls |-> 0]

(***************************************************************************)
(* The game: turns of the generator's list are applied one after another.  *)
(***************************************************************************)
MaxPly == 2

InitGame(states, how) ==
    /\ shiftUB \in {"wrap", "zero"}
    /\ \E state \in states :
          /\ cb = state.board
          /\ turnList = state.turnList
    /\ origin = how
    /\ ply = 0
    /\ last = NoTurn
    /\ nm = NewNegamax
    /\ tt = NewTable
    /\ fen = NoFen
    /\ ray = NoRay

\* ChessBoard(): the standard start.
InitStart == InitGame({GameState(StartBoard)}, "start")

\* ChessBoard(board, ...) as fromFEN calls it.
InitBoards == InitGame({GameState(board) : board \in Boards}, "fen")

Init == InitStart \/ InitBoards

\* GameState::applyTurn with a turn of getTurnList().
ApplyTurn ==
    /\ ply < MaxPly
    /\ ~isGameOver(cb)
    /\ \E i \in 1..Len(turnList) :
          /\ \E state \in {GameStateApplyTurn([board |-> cb, turnList |-> turnList],
                                               turnList[i])} :
                /\ cb' = state.board
                /\ turnList' = state.turnList
          /\ last' = turnList[i]
    /\ ply' = ply + 1
    /\ UNCHANGED <<shiftUB, origin, nm, tt, fen, ray>>

Next == ApplyTurn

Spec == Init /\ [][Next]_vars

\* k3r3/8/8/8/8/8/4r3/4K3 w - - 0 1: the rook that gives check is defended
\* by the rook of e8.
DefendedRookBoard ==
    ChessBoard(Position(4 :> WK @@ 12 :> BR @@ 56 :> BK @@ 60 :> BR),
               White, NoRights, NoRights, ERR, 0, 1)

\* 4k3/8/8/8/7b/8/5r2/4K3 w - - 0 1: the rook next to the king is defended
\* by the bishop of h4.
DefendedByBishopBoard ==
    ChessBoard(Position(4 :> WK @@ 13 :> BR @@ 31 :> Piece(Black, Bishop) @@ 60 :> BK),
               White, NoRights, NoRights, ERR, 0, 1)

KingBoards == {DefendedRookBoard, DefendedByBishopBoard, CornerBoard}

\* Games in which a king stands next to pieces of the opponent.
InitKing == InitGame({GameState(board) : board \in KingBoards}, "fen")

SpecKing == InitKing /\ [][Next]_vars

\* 4r2k/8/8/8/8/3n4/2P5/4K3 w - - 0 1: the knight of d3 and the rook of e8
\* give check at once.
DoubleCheckBoard ==
    ChessBoard(Position(4 :> WK @@ 10 :> WP @@ 19 :> BN @@ 60 :> BR @@ 63 :> BK),
               White, NoRights, NoRights, ERR, 0, 1)

\* The fields one, two and three steps from d4 on its file and rank, and on
\* its diagonals; the fields a knight's move from d4 (b3 is taken); the fields
\* from which a black pawn attacks d4.
LineFields == {35, 43, 51, 19, 11, 3, 28, 29, 30, 26, 25, 24}
DiagonalFields == {36, 45, 54, 34, 41, 48, 20, 13, 6, 18, 9, 0}
KnightFields == {44, 10, 42, 12, 37, 33, 21}
PawnFields == {34, 36}

\* 6k1/8/8/8/3K4/1N6/8/4Q3 w - - 0 1 with one black piece more, which gives
\* check to the king of d4.
CheckedBoard(type, pos) ==
    ChessBoard(Position(27 :> WK @@ 4 :> WQ @@ 17 :> WN @@ 62 :> BK
                        @@ pos :> Piece(Black, type)),
               White, NoRights, NoRights, ERR, 0, 1)

\* 8/8/8/4k3/3K4/1N6/8/4Q3 w - - 0 1: the kings stand next to each other.
KingCheckBoard ==
    ChessBoard(Position(27 :> WK @@ 4 :> WQ @@ 17 :> WN @@ 36 :> BK),
               White, NoRights, NoRights, ERR, 0, 1)

SingleCheckBoards ==
    {CheckedBoard(Queen, pos) : pos \in LineFields \cup DiagonalFields}
    \cup {CheckedBoard(Rook, pos) : pos \in LineFields}
    \cup {CheckedBoard(Bishop, pos) : pos \in DiagonalFields}
    \cup {CheckedBoard(Knight, pos) : pos \in KnightFields}
    \cup {CheckedBoard(Pawn, pos) : pos \in PawnFields}
    \cup {KingCheckBoard}

\* 8/8/7R/k7/pP6/2PB4/8/7K b - b3 0 1: the pawn that has just gone b2-b4
\* gives check, the king has no field to go to, and the pawn of a4 can take
\* the checking pawn en passant.
EnPassantEvasionBoard ==
    ChessBoard(Position(7 :> WK @@ 18 :> WP @@ 19 :> Piece(White, Bishop)
                        @@ 25 :> WP @@ 47 :> WR @@ 24 :> BP @@ 32 :> BK),
               Black, NoRights, NoRights, 17, 0, 1)

CheckBoards == {DoubleCheckBoard, EnPassantEvasionBoard} \cup SingleCheckBoards

\* Games that start with the king of the side to move in check.
InitCheck == InitGame({GameState(board) : board \in CheckBoards}, "fen")

SpecCheck == InitCheck /\ [][Next]_vars

\* Games from the standard start that have gone through an opening line.
InitOpenings ==
    InitGame({Replay(GameState(StartBoard), line) : line \in OpeningLines}, "start")

SpecOpenings == InitOpenings /\ [][Next]_vars

\* Games from the standard start in which kings and rooks have moved or have
\* been taken.
InitCastle ==
    InitGame({Replay(GameState(StartBoard), line) : line \in CastleLines}, "start")

SpecCastle == InitCastle /\ [][Next]_vars

(***************************************************************************)
(* A search as one step: a Negamax of some instantiation is constructed    *)
(* and search() runs on the game's state with no abort() during the call.  *)
(***************************************************************************)
MaxDepth == 5

Search(depths) ==
    /\ nm.phase = "idle"
    /\ \E maxDepth \in depths, inst \in Instantiations :
          \E found \in {search([board |-> cb, turnList |-> turnList], maxDepth, inst)} :
              nm' = [NewNegamax EXCEPT
                        !.phase = "returned",
                        !.calls = 1,
                        !.inst = inst,
                        !.maxDepth = maxDepth,
                        !.table = found.table,
                        !.result = NegamaxResult(found.score, found.turn)]
    /\ UNCHANGED <<cb, turnList, shiftUB, origin, ply, last, tt, fen, ray>>

SearchBelowMaxDepth == Search(1..(MaxDepth - 1))

SearchAtMaxDepth == Search({MaxDepth})

SearchOnePly == Search({1})

\* 7k/8/8/8/8/8/8/K7 w - - 0 1
CornerKingsBoard ==
    ChessBoard(Position(0 :> WK @@ 63 :> BK), White, NoRights, NoRights, ERR, 0, 1)

\* 7k/8/6K1/8/8/8/8/R7 w - - 98 60
FiftyLateBoard ==
    ChessBoard(Position(0 :> WR @@ 46 :> WK @@ 63 :> BK),
               White, NoRights, NoRights, ERR, 98, 60)

\* 7k/8/6K1/8/8/8/8/5Q2 w - - 98 70
QueenMateBoard ==
    ChessBoard(Position(5 :> WQ @@ 46 :> WK @@ 63 :> BK),
               White, NoRights, NoRights, ERR, 98, 70)

\* Boards whose games are short or have few turns.
SearchBoards == {CornerKingsBoard, FiftyBoard, FiftyLateBoard}

InitSearch == InitGame({GameState(board) : board \in SearchBoards}, "fen")

NextSearch == SearchBelowMaxDepth \/ SearchAtMaxDepth

SpecSearch == InitSearch /\ [][NextSearch]_vars

\* 7k/P7/7K/8/8/8/8/8 w - - 0 1
PromotionMateBoard ==
    ChessBoard(Position(47 :> WK @@ 48 :> WP @@ 63 :> BK),
               White, NoRights, NoRights, ERR, 0, 1)

MateBoards == {FiftyMateBoard, FiftyLateBoard, QueenMateBoard, PromotionMateBoard}

InitMate == InitGame({GameState(board) : board \in MateBoards}, "fen")

\* The game is played, then the position it has come to is searched.
PlayTurn == nm.phase = "idle" /\ ApplyTurn

NextMate == PlayTurn \/ SearchOnePly

SpecMate == InitMate /\ [][NextMate]_vars

(***************************************************************************)
(* A search step by step, with abort() called from another thread.  The    *)
(* steps end where the searching thread reads or writes m_abort.           *)
(***************************************************************************)
MaxStepDepth == 2

Frame(state, depth, alpha, beta) ==
    [state |-> state, depth |-> depth, initialAlpha |-> alpha, alpha |-> alpha,
     beta |-> beta, options |-> <<>>, i |-> 0,
     bestResult |-> NegamaxResult(MIN_SCORE, NoTurn), pc |-> "entry"]

Top(stack) == stack[Len(stack)]

ReplaceTop(stack, frame) == [stack EXCEPT ![Len(stack)] = frame]

\* `return result;` of the frame on top: to the caller's loop, or out of
\* search() when it is the first frame.
returnFrom(rec, result) ==
    IF Len(rec.stack) = 1
    THEN [rec EXCEPT !.stack = <<>>, !.ret = <<>>, !.phase = "returned",
                     !.result = result]
    ELSE [rec EXCEPT !.stack = SubSeq(@, 1, Len(@) - 1), !.ret = <<result>>]

\* search() has been called and has not yet written m_abort.
SearchEnter ==
    /\ nm.phase = "idle"
    /\ \E maxDepth \in 1..MaxStepDepth, inst \in Instantiations :
          nm' = [nm EXCEPT !.phase = "entered", !.calls = @ + 1, !.inst = inst,
                           !.maxDepth = maxDepth]
    /\ UNCHANGED <<cb, turnList, shiftUB, origin, ply, last, tt, fen, ray>>

\* `m_abort = false;` and the call of search_recurse.
SearchReset ==
    /\ nm.phase = "entered"
    /\ nm' = [nm EXCEPT
                !.phase = "running",
                !.m_abort = FALSE,
                !.stack = <<Frame([board |-> cb, turnList |-> turnList], 0,
                                  MIN_SCORE, MAX_SCORE)>>]
    /\ UNCHANGED <<cb, turnList, shiftUB, origin, ply, last, tt, fen, ray>>

probed(rec, frame, entry) ==
    IF ~tableHit(entry, rec.maxDepth - frame.depth)
    THEN [rec EXCEPT !.stack = ReplaceTop(@, [frame EXCEPT !.pc = "expand"])]
    ELSE IF probeReturns(entry, frame.alpha, frame.beta, rec.inst)
    THEN returnFrom(rec, NegamaxResult(entry.score, entry.turn))
    ELSE [rec EXCEPT !.stack = ReplaceTop(@, [frame EXCEPT
                                                !.pc = "expand",
                                                !.alpha = alphaWith(entry, @),
                                                !.beta = betaWith(entry, @)])]

polled(rec, frame) ==
    IF rec.m_abort
    THEN returnFrom([rec EXCEPT !.seen = TRUE], NegamaxResult(0, NoTurn))
    ELSE IF isGameOver(frame.state.board) \/ rec.maxDepth - frame.depth = 0
    THEN returnFrom(rec, NegamaxResult(GameStateGetScore(frame.state, frame.depth),
                                       NoTurn))
    ELSE probed(rec, frame,
                IF rec.inst.TRANSPOSITION_TABLES_ENABLED
                THEN lookup(rec.table, frame.state.board.hash) ELSE NoEntry)

\* The entry of a frame: the poll of m_abort, the leaf and the probe.
FramePoll ==
    /\ nm.phase = "running"
    /\ nm.ret = <<>>
    /\ Top(nm.stack).pc = "entry"
    /\ nm' = polled(nm, Top(nm.stack))
    /\ UNCHANGED <<cb, turnList, shiftUB, origin, ply, last, tt, fen, ray>>

expanded(rec, frame) ==
    [rec EXCEPT
        !.stack = ReplaceTop(@, [frame EXCEPT
                                    !.pc = "loop",
                                    !.i = 1,
                                    !.options = orderedOptions(frame.state, frame.depth,
                                                               rec.table, rec.inst)]),
        !.passes = IF rec.aborted THEN @ + 1 ELSE @]

\* A move-generation pass that applies the first turn to the caller's state
\* instead of a copy.
FrameExpandInPlace ==
    /\ nm.phase = "running"
    /\ nm.ret = <<>>
    /\ Top(nm.stack).pc = "expand"
    /\ nm' = expanded(nm, Top(nm.stack))
    /\ \E applied \in {GameStateApplyTurn(Top(nm.stack).state,
                                          Top(nm.stack).state.turnList[1])} :
          /\ cb' = applied.board
          /\ turnList' = applied.turnList
    /\ UNCHANGED <<shiftUB, origin, ply, last, tt, fen, ray>>

\* One move-generation pass: the state's turns are enumerated, each is
\* applied to a copy, and the options are ordered.
FrameExpand ==
    /\ nm.phase = "running"
    /\ nm.ret = <<>>
    /\ Top(nm.stack).pc = "expand"
    /\ nm' = expanded(nm, Top(nm.stack))
    /\ UNCHANGED <<cb, turnList, shiftUB, origin, ply, last, tt, fen, ray>>

descended(rec, frame) ==
    [rec EXCEPT !.stack = Append(@, Frame(frame.options[frame.i].state, frame.depth + 1,
                                          -frame.beta, -frame.alpha))]

\* The recursive call for the next option.
FrameDescend ==
    /\ nm.phase = "running"
    /\ nm.ret = <<>>
    /\ Top(nm.stack).pc = "loop"
    /\ nm' = descended(nm, Top(nm.stack))
    /\ UNCHANGED <<cb, turnList, shiftUB, origin, ply, last, tt, fen, ray>>

\* The store after the loop and the return of the best result.
finished(rec, frame, bestResult) ==
    returnFrom([rec EXCEPT !.table = tableAfter(@, frame.state,
                                                rec.maxDepth - frame.depth,
                                                frame.initialAlpha, frame.beta,
                                                bestResult, rec.inst)],
               bestResult)

resumedWith(rec, frame, bestResult, alpha) ==
    IF rec.inst.AB_CUTOFF_ENABLED /\ alpha >= frame.beta
    THEN finished(rec, frame, bestResult)
    ELSE IF rec.m_abort
    THEN returnFrom([rec EXCEPT !.seen = TRUE], NegamaxResult(0, NoTurn))
    ELSE IF frame.i = Len(frame.options) THEN finished(rec, frame, bestResult)
    ELSE [rec EXCEPT !.ret = <<>>,
                     !.stack = ReplaceTop(@, [frame EXCEPT !.alpha = alpha,
                                                           !.bestResult = bestResult,
                                                           !.i = @ + 1])]

resumed(rec, frame, score) ==
    resumedWith(rec, frame,
                improved(frame.bestResult, frame.options[frame.i].turn, score),
                Max(frame.alpha, score))

\* The rest of the loop body once the recursive call has returned, ending
\* with the poll of m_abort.
FrameResume ==
    /\ nm.phase = "running"
    /\ nm.ret # <<>>
    /\ nm' = resumed(nm, Top(nm.stack), -nm.ret[1].score)
    /\ UNCHANGED <<cb, turnList, shiftUB, origin, ply, last, tt, fen, ray>>

\* abort() from another thread while the search() call is in progress.
Abort ==
    /\ nm.phase \in {"entered", "running"}
    /\ ~nm.aborted
    /\ nm' = [nm EXCEPT !.m_abort = TRUE, !.aborted = TRUE]
    /\ UNCHANGED <<cb, turnList, shiftUB, origin, ply, last, tt, fen, ray>>

NextAbort ==
    \/ SearchEnter
    \/ SearchReset
    \/ FramePoll
    \/ FrameExpand
    \/ FrameDescend
    \/ FrameResume
    \/ Abort

SpecAbort == InitSearch /\ [][NextAbort]_vars

(***************************************************************************)
(* A transposition table on its own: entries are stored and hashes looked  *)
(* up in any order.                                                        *)
(***************************************************************************)
TableEntries ==
    {[score |-> 5, turn |-> NoTurn, hash |-> hash, depth |-> depth, boundType |-> "EXACT"] :
        hash \in Hashes, depth \in {0, 1}}

InitTable == InitGame({GameState(CornerKingsBoard)}, "fen")

\* tbl.maybeUpdate(entry)
TableStore ==
    /\ Len(tt.stores) < MaxStores
    /\ \E entry \in TableEntries :
          tt' = [slots |-> TableMaybeUpdate(tt.slots, entry),
                 stores |-> Append(tt.stores, entry),
                 asked |-> <<>>, found |-> NoEntry]
    /\ UNCHANGED <<cb, turnList, shiftUB, origin, ply, last, nm, fen, ray>>

\* tbl.lookup(hash)
TableProbe ==
    /\ tt.asked = <<>>
    /\ \E hash \in Hashes :
          tt' = [tt EXCEPT !.asked = <<hash>>, !.found = TableLookup(tt.slots, hash)]
    /\ UNCHANGED <<cb, turnList, shiftUB, origin, ply, last, nm, fen, ray>>

NextTable == TableStore \/ TableProbe

SpecTable == InitTable /\ [][NextTable]_vars

(***************************************************************************)
(* One Negamax instance used for the searches of a game: search(), the     *)
(* returned turn applied, search() again on the table the earlier calls    *)
(* have filled.                                                            *)
(***************************************************************************)
MaxReuseDepth == 2

MaxSearches == 2

ReuseBoards == {CornerKingsBoard, FiftyLateBoard, QueenMateBoard}

InitReuse == InitGame({GameState(board) : board \in ReuseBoards}, "fen")

\* The first search() of the instance, on its empty table.
SearchFirst == nm.calls = 0 /\ Search(1..MaxReuseDepth)

\* GameState::applyTurn with the turn that search() has returned.
PlayResult ==
    /\ nm.phase = "returned"
    /\ ply < MaxPly
    /\ ~isGameOver(cb)
    /\ \E i \in 1..Len(turnList) : turnList[i] = nm.result.turn
    /\ \E state \in {GameStateApplyTurn([board |-> cb, turnList |-> turnList],
                                          nm.result.turn)} :
          /\ cb' = state.board
          /\ turnList' = state.turnList
    /\ last' = nm.result.turn
    /\ ply' = ply + 1
    /\ nm' = [nm EXCEPT !.phase = "idle"]
    /\ UNCHANGED <<shiftUB, origin, tt, fen, ray>>

\* A later search() of the same instance: m_transpositionTable is as the
\* earlier calls have left it.
SearchAgain ==
    /\ nm.calls >= 1
    /\ nm.calls < MaxSearches
    /\ nm.phase \in {"idle", "returned"}
    /\ \E maxDepth \in 1..MaxReuseDepth :
          \E found \in {search_recurse([board |-> cb, turnList |-> turnList], 0,
                                        maxDepth, MIN_SCORE, MAX_SCORE, nm.table,
                                        nm.inst)} :
              nm' = [nm EXCEPT
                        !.phase = "returned",
                        !.calls = @ + 1,
                        !.maxDepth = maxDepth,
                        !.table = found.table,
                        !.result = NegamaxResult(found.score, found.turn)]
    /\ UNCHANGED <<cb, turnList, shiftUB, origin, ply, last, tt, fen, ray>>

NextReuse == SearchFirst \/ PlayResult \/ SearchAgain

SpecReuse == InitReuse /\ [][NextReuse]_vars

(***************************************************************************)
(* The ray helpers called on the bitboard of one piece.                    *)
(***************************************************************************)
InitRay == InitGame({GameState(CornerKingsBoard)}, "fen")

\* getBitsN(bbPiece) ... getBitsSW(bbPiece), maskRank(rank), maskFile(file)
GetBits ==
    /\ ray = NoRay
    /\ \E helper \in RayHelpers \cup MaskHelpers, field \in Fields :
        /\ ray' = [helper |-> helper, field |-> field,
                   allOppPieces |-> {}, allPieces |-> {},
                   bits |-> getBits(helper, {field}),
                   shifts |-> {shiftCount(helper, field)}]
        /\ UNCHANGED <<cb, turnList, shiftUB, origin, ply, last, nm, tt, fen>>

\* The sliding-piece functions by name.
SliderHelpers == {"calcRookTurns", "calcBishopTurns", "calcQueenTurns"}

calcSliderTurns(helper, bbPiece, allOppPieces, allPieces) ==
    CASE helper = "calcRookTurns" -> calcRookTurns(bbPiece, allOppPieces, allPieces)
      [] helper = "calcBishopTurns" -> calcBishopTurns(bbPiece, allOppPieces, allPieces)
      [] helper = "calcQueenTurns" -> calcQueenTurns(bbPiece, allOppPieces, allPieces)

\* The ray helpers that a sliding-piece function calls.
raysOf(helper) ==
    CASE helper = "calcRookTurns" -> {"getBitsN", "getBitsS", "getBitsE", "getBitsW"}
      [] helper = "calcBishopTurns" -> {"getBitsNE", "getBitsNW", "getBitsSE", "getBitsSW"}
      [] helper = "calcQueenTurns" -> RayHelpers

\* The fields where the sliding piece is put: corners, the centre, an edge.
SliderFields == {0, 7, 27, 60}

MaxBlockers == 2

\* The fields where the other pieces are put: those of the piece's rank,
\* file and diagonals, and those a knight's move away from it.
BlockerFields(field) ==
    {g \in Fields \ {field} :
        \/ g % 8 = field % 8
        \/ g \div 8 = field \div 8
        \/ (g % 8) - (field % 8) = (g \div 8) - (field \div 8)
        \/ (g % 8) - (field % 8) = (field \div 8) - (g \div 8)
        \/ (g - field) \in {-17, -15, -10, -6, 6, 10, 15, 17}}

\* The sets of at most n of those fields.
RECURSIVE BlockerSets(_, _)
BlockerSets(field, n) ==
    IF n = 0 THEN {{}}
    ELSE {blockers \cup more :
             blockers \in BlockerSets(field, n - 1),
             more \in {{}} \cup {{g} : g \in BlockerFields(field)}}

\* calcRookTurns, calcBishopTurns or calcQueenTurns for one piece among
\* other pieces, some of them the opponent's.
CalcSliderTurns ==
    /\ ray = NoRay
    /\ \E helper \in SliderHelpers, field \in SliderFields :
        \E blockers \in BlockerSets(field, MaxBlockers) :
            \E allOppPieces \in SUBSET blockers :
                /\ ray' = [helper |-> helper, field |-> field,
                           allOppPieces |-> allOppPieces,
                           allPieces |-> blockers \cup {field},
                           bits |-> calcSliderTurns(helper, {field}, allOppPieces,
                                                    blockers \cup {field}),
                           shifts |-> {shiftCount(h, field) : h \in raysOf(helper)}]
                /\ UNCHANGED <<cb, turnList, shiftUB, origin, ply, last, nm, tt, fen>>

NextRay == GetBits \/ CalcSliderTurns

SpecRay == InitRay /\ [][NextRay]_vars

(***************************************************************************)
(* FEN strings read and written back.                                      *)
(***************************************************************************)
FenPlacements ==
    {<<"r", "n", "b", "q", "k", "b", "n", "r", "/", "p", "p", "p", "p",
      "p", "p", "p", "p", "/", "8", "/", "8", "/", "8", "/", "8",
      "/", "P", "P", "P", "P", "P", "P", "P", "P", "/", "R", "N",
      "B", "Q", "K", "B", "N", "R">>,
     <<"8", "/", "k", "7", "/", "8", "/", "8", "/", "8", "/", "8", "/",
      "K", "7", "/", "8">>,
     <<"r", "3", "k", "2", "r", "/", "p", "6", "p", "/", "8", "/", "8",
      "/", "8", "/", "8", "/", "P", "6", "P", "/", "R", "3", "K",
      "2", "R">>,
     <<"4", "k", "3", "/", "8", "/", "8", "/", "3", "p", "P", "3", "/",
      "8", "/", "8", "/", "8", "/", "4", "K", "3">>,
     <<"1", "n", "6", "/", "P", "7", "/", "8", "/", "8", "/", "8", "/",
      "8", "/", "7", "p", "/", "k", "3", "K", "3">>,
     <<"2", "b", "1", "k", "1", "n", "1", "/", "p", "p", "3", "p", "p",
      "p", "/", "4", "q", "3", "/", "8", "/", "3", "Q", "4", "/",
      "8", "/", "P", "P", "P", "2", "P", "P", "P", "/", "1", "N",
      "B", "1", "K", "2", "R">>}

FenRights ==
    {<<"-">>} \cup
    ({k \o q \o bk \o bq :
         k \in {<<>>, <<"K">>}, q \in {<<>>, <<"Q">>},
         bk \in {<<>>, <<"k">>}, bq \in {<<>>, <<"q">>}} \ {<<>>})

FenSquares == {<<"-">>, <<"e", "3">>, <<"h", "6">>}

FenHalfMoves == {<<"0">>, <<"9", "9">>, <<"1", "0", "0">>}

FenFullMoves == {<<"1">>, <<"9", "0">>, <<"1", "2", "3">>}

\* Valid FEN strings in canonical form.
FenStrings ==
    {placement \o <<" ">> \o side \o <<" ">> \o rights \o <<" ">> \o square
        \o <<" ">> \o half \o <<" ">> \o full :
        placement \in FenPlacements, side \in {<<"w">>, <<"b">>},
        rights \in FenRights, square \in FenSquares,
        half \in FenHalfMoves, full \in FenFullMoves}

InitFEN ==
    /\ shiftUB \in {"wrap", "zero"}
    /\ cb = StartBoard
    /\ turnList = <<>>
    /\ origin = "fen"
    /\ ply = 0
    /\ last = NoTurn
    /\ nm = NewNegamax
    /\ tt = NewTable
    /\ \E input \in FenStrings : fen = [NoFen EXCEPT !.input = input]
    /\ ray = NoRay

\* ChessBoard::fromFEN(fen)
FromFEN ==
    /\ fen.input # <<>>
    /\ fen.parsed = <<>>
    /\ fen' = [fen EXCEPT !.parsed = <<fromFEN(fen.input)>>]
    /\ UNCHANGED <<cb, turnList, shiftUB, origin, ply, last, nm, tt, ray>>

\* board.toFEN()
ToFEN ==
    /\ fen.parsed # <<>>
    /\ fen.output = <<>>
    /\ fen' = [fen EXCEPT !.output = toFEN(fen.parsed[1])]
    /\ UNCHANGED <<cb, turnList, shiftUB, origin, ply, last, nm, tt, ray>>

NextFEN == FromFEN \/ ToFEN

SpecFEN == InitFEN /\ [][NextFEN]_vars

(***************************************************************************)
(* Properties of the game.                                                 *)
(***************************************************************************)
\* C1: in every position reached from the standard start by turns of the
\* generator's lists, each colour has exactly one king on the board for as
\* long as the game is not over.
OneKingEachWhileRunning ==
    (origin = "start" /\ ~isGameOver(cb)) =>
        \A c \in Players : Cardinality(cb.bb[c][King]) = 1

HashIsFullHash ==
    ply > 0 => cb.hash = estimateFullHash(cb)

\* A double step has set the en-passant square and the en-passant capture
\* that followed has taken the pawn and cleared the square.
EnPassantCaptureApplied ==
    /\ ply = 2
    /\ last = Turn(WP, 36, 43, "Move")
    /\ cb.lastCapturedPiece = BP
    /\ 35 \notin cb.bb[Black][Pawn]
    /\ cb.enPassantSquare = ERR

CastlingRightsNeverReturn ==
    [][\A c \in Players :
          /\ cb'.shortCastleRight[c] => cb.shortCastleRight[c]
          /\ cb'.longCastleRight[c] => cb.longCastleRight[c]]_vars

\* A player has castled and holds no right any more; the other player has
\* lost none.
CastledAndRightsLost ==
    /\ last.action = "Castle"
    /\ ~cb.shortCastleRight[last.piece.player]
    /\ ~cb.longCastleRight[last.piece.player]
    /\ cb.shortCastleRight[cb.nextPlayer]
    /\ cb.longCastleRight[cb.nextPlayer]

\* C6: after a generation pass the turn list is empty if and only if the
\* pass set checkmate for the player to move (his king in check) or
\* stalemate (his king not in check); a state that is not game over has a
\* turn in its list.
EmptyListIffMateOrStalemate ==
    /\ (turnList = <<>>) <=> (cb.checkmate[cb.nextPlayer] \/ cb.stalemate)
    /\ cb.checkmate[cb.nextPlayer] => cb.kingInCheck[cb.nextPlayer]
    /\ cb.stalemate => ~cb.kingInCheck[cb.nextPlayer]
    /\ ~isGameOver(cb) => Len(turnList) > 0

\* The generation pass found the player to move stalemated.
StalemateFound ==
    /\ ply > 0
    /\ turnList = <<>>
    /\ cb.stalemate
    /\ ~cb.kingInCheck[cb.nextPlayer]

SameScoreForAllToggles ==
    (nm.phase = "returned" /\ nm.inst = PlainNegamax) =>
        \A inst \in Instantiations :
            search([board |-> cb, turnList |-> turnList], nm.maxDepth, inst).score
                = nm.result.score

\* C8 amended: the score the plain search returns for a position and a depth
\* is the score every instantiation without transposition table returns for
\* them, whatever its alpha-beta cutoff and move ordering, so that these
\* four return the same score.
SameScoreWithoutTable ==
    (nm.phase = "returned" /\ nm.inst = PlainNegamax) =>
        \A inst \in {other \in Instantiations : ~other.TRANSPOSITION_TABLES_ENABLED} :
            search([board |-> cb, turnList |-> turnList], nm.maxDepth, inst).score
                = nm.result.score

\* The plain search of the greatest depth has returned a turn for a game
\* that is not over.
DeepPlainSearchReturned ==
    /\ nm.phase = "returned"
    /\ nm.inst = PlainNegamax
    /\ nm.maxDepth = MaxDepth
    /\ nm.result.turn # NoTurn
    /\ ~isGameOver(cb)

\* The turns of the state's list that checkmate the opponent.
MatingTurns(state) ==
    {state.turnList[i] : i \in
        {j \in 1..Len(state.turnList) :
            GameStateApplyTurn(state, state.turnList[j]).board.checkmate[
                togglePlayerColor(state.board.nextPlayer)]}}

ReturnsMateOf(mates) == mates # {} => nm.result.turn \in mates

\* C9 as stated: whenever the list of the player to move holds a turn that
\* checkmates the opponent, search with maxDepth 1 returns such a turn.
DepthOneSearchMates ==
    (nm.phase = "returned" /\ nm.maxDepth = 1) =>
        ReturnsMateOf(MatingTurns([board |-> cb, turnList |-> turnList]))

\* C9 amended: the same for every position that is not game over.
DepthOneSearchMatesWhileRunning ==
    (nm.phase = "returned" /\ nm.maxDepth = 1 /\ ~isGameOver(cb)) =>
        ReturnsMateOf(MatingTurns([board |-> cb, turnList |-> turnList]))

\* A depth-1 search has returned one of several mating turns.
OneOfSeveralMatesReturned ==
    /\ nm.phase = "returned"
    /\ nm.maxDepth = 1
    /\ ~isGameOver(cb)
    /\ nm.result.score = WIN_SCORE - 1
    /\ Cardinality(MatingTurns([board |-> cb, turnList |-> turnList])) > 1

\* C10: once abort() has been called during a search() call, the search
\* begins at most one further move-generation pass before it returns.
AbortEndsSearchWithinOnePass ==
    nm.aborted => nm.passes <= 1

\* C11: whenever abort() has been called during a search() call, the value
\* the call returns is the sentinel: score 0 and no turn.
AbortedSearchReturnsSentinel ==
    (nm.phase = "returned" /\ nm.aborted) => nm.result = NegamaxResult(0, NoTurn)

\* C12: no step of a search() call, whether it runs to its end or is
\* aborted, changes the caller's game state: board, player to move, rights,
\* clocks, flags, score, hash and turn list are those passed in.
SearchLeavesCallerState ==
    [][(nm.phase # "idle" \/ nm'.phase # "idle") =>
          (cb' = cb /\ turnList' = turnList)]_vars

\* A search of the greatest depth has applied turns to its copies and
\* returned a turn.
SteppedSearchReturnedTurn ==
    /\ nm.phase = "returned"
    /\ nm.maxDepth = MaxStepDepth
    /\ ~nm.aborted
    /\ nm.result.turn # NoTurn

(***************************************************************************)
(* Attacks by the rules of chess, field by field, for the properties of    *)
(* the generator.                                                          *)
(***************************************************************************)
Distance(a, b) == IF a >= b THEN a - b ELSE b - a

FileDistance(f, g) == Distance(f % 8, g % 8)

RankDistance(f, g) == Distance(f \div 8, g \div 8)

OnLine(f, g) == f # g /\ (FileDistance(f, g) = 0 \/ RankDistance(f, g) = 0)

OnDiagonal(f, g) == f # g /\ FileDistance(f, g) = RankDistance(f, g)

\* The fields strictly between two fields of one rank, file or diagonal.
Between(f, g) ==
    {h \in Fields :
        /\ h # f /\ h # g
        /\ FileDistance(f, h) + FileDistance(h, g) = FileDistance(f, g)
        /\ RankDistance(f, h) + RankDistance(h, g) = RankDistance(f, g)
        /\ (OnLine(f, g) \/ OnDiagonal(h, f))}

Occupied(board) == board.bb[White][AllPieces] \cup board.bb[Black][AllPieces]

\* The piece of the given type and colour on field g attacks field f.
PieceAttacks(board, color, type, g, f) ==
    CASE type = King -> f # g /\ FileDistance(f, g) <= 1 /\ RankDistance(f, g) <= 1
      [] type = Knight -> {FileDistance(f, g), RankDistance(f, g)} = {1, 2}
      [] type = Pawn -> /\ FileDistance(f, g) = 1
                        /\ f \div 8 = (g \div 8) + (IF color = White THEN 1 ELSE -1)
      [] type = Rook -> OnLine(f, g) /\ Between(f, g) \cap Occupied(board) = {}
      [] type = Bishop -> OnDiagonal(f, g) /\ Between(f, g) \cap Occupied(board) = {}
      [] type = Queen -> /\ OnLine(f, g) \/ OnDiagonal(f, g)
                         /\ Between(f, g) \cap Occupied(board) = {}
      [] OTHER -> FALSE

\* Some piece of the colour attacks field f.
Attacked(board, color, f) ==
    \E type \in {King, Queen, Bishop, Knight, Rook, Pawn} :
        \E g \in board.bb[color][type] : PieceAttacks(board, color, type, g, f)

InList(list, turn) == \E i \in 1..Len(list) : list[i] = turn

CastleTurn(player, to) ==
    Turn(Piece(player, King), IF player = White THEN 4 ELSE 60, to, "Castle")

\* The conditions of a castle: the right, the empty fields between king and
\* rook, and the king's field, the field it crosses and its destination free
\* of attack (the first of them: the king is not in check).
MayCastle(board, player, right, empty, path) ==
    /\ right
    /\ empty \cap Occupied(board) = {}
    /\ \A f \in path : ~Attacked(board, togglePlayerColor(player), f)
    /\ \A f \in board.bb[player][King] :
          ~Attacked(board, togglePlayerColor(player), f)

\* C13: the short (long) castle turn of the player to move is in the
\* generated list exactly when he is not in check, holds the right, the
\* fields between king and rook are empty and none of the king's field,
\* the field it crosses and its destination is attacked by the opponent.
CastleListedIffAllowed ==
    /\ InList(turnList, CastleTurn(cb.nextPlayer, IF cb.nextPlayer = White THEN 6 ELSE 62))
         <=> MayCastle(cb, cb.nextPlayer, cb.shortCastleRight[cb.nextPlayer],
                       IF cb.nextPlayer = White THEN {5, 6} ELSE {61, 62},
                       IF cb.nextPlayer = White THEN {4, 5, 6} ELSE {60, 61, 62})
    /\ InList(turnList, CastleTurn(cb.nextPlayer, IF cb.nextPlayer = White THEN 2 ELSE 58))
         <=> MayCastle(cb, cb.nextPlayer, cb.longCastleRight[cb.nextPlayer],
                       IF cb.nextPlayer = White THEN {1, 2, 3} ELSE {57, 58, 59},
                       IF cb.nextPlayer = White THEN {4, 3, 2} ELSE {60, 59, 58})

\* The player to move holds both rights with the fields between king and
\* rooks empty and is not in check; the field the king would cross on one
\* side is attacked, and the list holds the castle of the other side only.
OneCastleBarredByAttack ==
    /\ ply > 0
    /\ cb.nextPlayer = Black
    /\ cb.shortCastleRight[Black] /\ cb.longCastleRight[Black]
    /\ {57, 58, 59, 61, 62} \cap Occupied(cb) = {}
    /\ ~Attacked(cb, White, 60)
    /\ Attacked(cb, White, 59)
    /\ InList(turnList, CastleTurn(Black, 62))
    /\ ~InList(turnList, CastleTurn(Black, 58))

IsPromotion(turn) ==
    turn.action \in {"PromotionQueen", "PromotionBishop", "PromotionRook", "PromotionKnight"}

\* The places of the list that hold a turn with the from and to of place i.
SameSquares(list, i) ==
    {j \in 1..Len(list) : list[j].from = list[i].from /\ list[j].to = list[i].to}

\* C14: a pawn turn of the generated list whose destination is on the first
\* or the eighth rank is never a plain Move; every promotion turn is a pawn
\* turn onto the last rank of its colour; and the turns with the from and to
\* of a promotion turn are exactly four neighbours of the list, tagged
\* PromotionQueen, PromotionBishop, PromotionRook, PromotionKnight in that
\* order.
PromotionsListedInFours ==
    \A i \in 1..Len(turnList) :
        /\ (turnList[i].piece.type = Pawn /\ rankFor(turnList[i].to) \in {0, 7})
              => IsPromotion(turnList[i])
        /\ IsPromotion(turnList[i]) =>
              /\ turnList[i].piece = Piece(cb.nextPlayer, Pawn)
              /\ rankFor(turnList[i].to) = IF cb.nextPlayer = White THEN 7 ELSE 0
              /\ \E k \in 1..(Len(turnList) - 3) :
                    /\ SameSquares(turnList, i) = k..(k + 3)
                    /\ turnList[k].action = "PromotionQueen"
                    /\ turnList[k + 1].action = "PromotionBishop"
                    /\ turnList[k + 2].action = "PromotionRook"
                    /\ turnList[k + 3].action = "PromotionKnight"

\* After a turn the list holds the promotions of a pawn that can both step
\* and capture onto the last rank: eight promotion turns.
TwoPromotionSquaresListed ==
    /\ ply > 0
    /\ Cardinality({i \in 1..Len(turnList) : IsPromotion(turnList[i])}) = 8

\* The pawns of the player to move that stand diagonally behind the
\* en-passant square.
EnPassantCapturers(board) ==
    {g \in board.bb[board.nextPlayer][Pawn] :
        /\ board.enPassantSquare # ERR
        /\ FileDistance(g, board.enPassantSquare) = 1
        /\ board.enPassantSquare \div 8
              = (g \div 8) + (IF board.nextPlayer = White THEN 1 ELSE -1)}

NotInCheck(board) ==
    \A f \in board.bb[board.nextPlayer][King] :
        ~Attacked(board, togglePlayerColor(board.nextPlayer), f)

\* The list of a player who is not in check holds the capture onto the
\* en-passant square for each of his pawns diagonally behind it.
EnPassantListed(board, list) ==
    NotInCheck(board) =>
        \A g \in EnPassantCapturers(board) :
            InList(list, Turn(Piece(board.nextPlayer, Pawn), g,
                              board.enPassantSquare, "Move"))

\* What applying the en-passant capture `turn` to `before` leaves in `after`.
EnPassantTaken(before, turn, after, behind) ==
    /\ behind \in before.bb[after.nextPlayer][Pawn]
    /\ turn.to \notin Occupied(before)
    /\ after.bb[after.nextPlayer][AllPieces]
          = before.bb[after.nextPlayer][AllPieces] \ {behind}
    /\ behind \notin Occupied(after)
    /\ after.lastCapturedPiece = Piece(after.nextPlayer, Pawn)
    /\ after.bb[before.nextPlayer][Pawn]
          = (before.bb[before.nextPlayer][Pawn] \ {turn.from}) \cup {turn.to}
    /\ after.enPassantSquare = ERR

\* C15: with the en-passant square set and a pawn of the player to move,
\* who is not in check, diagonally behind it, the generated list holds that
\* pawn's capture onto the square; applying it takes the enemy pawn from the
\* field one rank behind the destination, records it as the last captured
\* piece, puts the capturing pawn on the destination and leaves the
\* en-passant square cleared.
EnPassantListedAndTaken ==
    [][/\ EnPassantListed(cb, turnList)
       /\ EnPassantListed(cb', turnList')
       /\ (ply' = ply + 1 /\ last'.to = cb.enPassantSquare
              /\ last'.from \in EnPassantCapturers(cb))
            => EnPassantTaken(cb, last', cb',
                              IF cb.nextPlayer = White THEN last'.to - 8
                              ELSE last'.to + 8)]_vars

\* The first turn of a game was the en-passant capture e5 takes d6: the
\* pawn of d5 is gone and the capturing pawn stands on d6.
EnPassantPawnTaken ==
    /\ ply = 1
    /\ last = Turn(WP, 36, 43, "Move")
    /\ 43 \in cb.bb[White][Pawn]
    /\ 35 \notin Occupied(cb)
    /\ cb.lastCapturedPiece = BP

TurnsOfType(list, type) == {i \in 1..Len(list) : list[i].piece.type = type}

\* C16: in the default-constructed game state White is to move, the game is
\* not over, and the generated list has exactly 20 turns: 16 pawn turns and
\* 4 knight turns.
DefaultStateHasTwentyTurns ==
    (origin = "start" /\ ply = 0) =>
        /\ cb.nextPlayer = White
        /\ ~isGameOver(cb)
        /\ Len(turnList) = 20
        /\ Cardinality(TurnsOfType(turnList, Pawn)) = 16
        /\ Cardinality(TurnsOfType(turnList, Knight)) = 4

\* The default-constructed state, whose list holds the double step b2-b4
\* and the knight's jump g1-f3.
DefaultStateConstructed ==
    /\ origin = "start"
    /\ ply = 0
    /\ InList(turnList, Turn(WP, 9, 25, "Move"))
    /\ InList(turnList, Turn(WN, 6, 21, "Move"))

\* Two game states compare equal: their chess boards agree in every member.
StatesEqual(a, b) == a.board = b.board

RECURSIVE MostRecentStore(_, _)
MostRecentStore(stores, slot) ==
    IF stores = <<>> THEN NoEntry
    ELSE IF stores[Len(stores)].hash % TableSize = slot THEN stores[Len(stores)]
    ELSE MostRecentStore(SubSeq(stores, 1, Len(stores) - 1), slot)

\* What lookup(hash) is to return after the stores.
ExpectedLookup(stores, hash) ==
    IF MostRecentStore(stores, hash % TableSize) # NoEntry
       /\ MostRecentStore(stores, hash % TableSize).hash = hash
    THEN MostRecentStore(stores, hash % TableSize)
    ELSE NoEntry

\* C18: on a freshly constructed table every lookup is a miss, also for
\* hashes beyond the table's size; after any stores lookup(h) returns an
\* entry exactly when the most recent store into slot h mod size carried
\* hash h, and then that entry.
LookupReturnsMostRecentStore ==
    /\ \A hash \in Hashes : TableLookup(tt.slots, hash) = ExpectedLookup(tt.stores, hash)
    /\ tt.stores = <<>> => \A hash \in Hashes : TableLookup(tt.slots, hash) = NoEntry
    /\ tt.asked # <<>> => tt.found = ExpectedLookup(tt.stores, tt.asked[1])

\* Two entries of different hashes went into one slot; the lookup of the
\* second hash returned the second entry, and the first hash is a miss.
SlotReplacedAndLookedUp ==
    /\ Len(tt.stores) = 2
    /\ tt.stores[1].hash # tt.stores[2].hash
    /\ tt.stores[1].hash % TableSize = tt.stores[2].hash % TableSize
    /\ tt.stores[1].depth > tt.stores[2].depth
    /\ tt.asked = <<tt.stores[2].hash>>
    /\ tt.found = tt.stores[2]
    /\ TableLookup(tt.slots, tt.stores[1].hash) = NoEntry

\* C19: for every valid FEN string s in canonical form, fromFEN(s).toFEN()
\* is s: placement, player to move, castling rights, en-passant square,
\* half-move clock and full-move number survive the round trip.
FenRoundTrip ==
    fen.output # <<>> => fen.output = fen.input

\* A string with pieces and empty runs mixed in a rank, some of the rights,
\* an en-passant square and clocks of several digits has been read and
\* written back.
MixedFenWrittenBack ==
    /\ fen.output # <<>>
    /\ fen.parsed[1].nextPlayer = Black
    /\ fen.parsed[1].shortCastleRight[White] /\ ~fen.parsed[1].longCastleRight[White]
    /\ fen.parsed[1].longCastleRight[Black]
    /\ fen.parsed[1].enPassantSquare = 20
    /\ fen.parsed[1].halfMoveClock = 100
    /\ fen.parsed[1].fullMoveClock = 123
    /\ fen.parsed[1].bb[White][Queen] = {27}
    /\ fen.parsed[1].bb[Black][Queen] = {44}

\* The board with the king of the player to move taken from `from` and put
\* on `to`, and whatever stood on `to` taken off.
WithKingOn(board, from, to) ==
    [board EXCEPT
        !.bb = [c \in Players |->
                   [t \in DOMAIN board.bb[c] |->
                       IF c # board.nextPlayer THEN board.bb[c][t] \ {to}
                       ELSE IF t \in {King, AllPieces}
                       THEN (board.bb[c][t] \ {from}) \cup {to}
                       ELSE board.bb[c][t]]]]

\* C20: every king move of the generated list, the king in check or not,
\* goes to a field that no piece of the opponent attacks once the king
\* stands there.
KingNeverStepsIntoAttack ==
    \A i \in 1..Len(turnList) :
        (turnList[i].piece.type = King /\ turnList[i].action = "Move") =>
            ~Attacked(WithKingOn(cb, turnList[i].from, turnList[i].to),
                      togglePlayerColor(cb.nextPlayer), turnList[i].to)

\* The fields from which a piece of the opponent attacks the king of the side
\* to move.
Checkers(board) ==
    {g \in Fields :
        \E type \in {King, Queen, Bishop, Knight, Rook, Pawn} :
            /\ g \in board.bb[togglePlayerColor(board.nextPlayer)][type]
            /\ \E f \in board.bb[board.nextPlayer][King] :
                  PieceAttacks(board, togglePlayerColor(board.nextPlayer), type, g, f)}

\* C21: when two pieces of the opponent attack the king of the side to move
\* at once, the generated list holds king moves only.
DoubleCheckLeavesKingMovesOnly ==
    Cardinality(Checkers(cb)) >= 2 =>
        \A i \in 1..Len(turnList) : turnList[i].piece.type = King

\* The mask of a single check: the checking piece's field, and for a queen,
\* rook or bishop the fields strictly between it and the king as well.
EvasionMask(board, pos) ==
    IF pos \in board.bb[togglePlayerColor(board.nextPlayer)][Queen]
                \cup board.bb[togglePlayerColor(board.nextPlayer)][Rook]
                \cup board.bb[togglePlayerColor(board.nextPlayer)][Bishop]
    THEN {pos} \cup UNION {Between(pos, f) : f \in board.bb[board.nextPlayer][King]}
    ELSE {pos}

\* C22: with exactly one piece of the opponent giving check, calcUnCheckFields
\* is the checker's field for a knight, pawn or king and the checker's field
\* with the fields strictly between checker and king for a queen, rook or
\* bishop, and every generated move of a piece other than the king ends on a
\* field of that mask.
SingleCheckMaskIsExact ==
    \A pos \in Checkers(cb) :
        Checkers(cb) = {pos} =>
            /\ calcUnCheckFields(togglePlayerColor(cb.nextPlayer), cb)
                   = EvasionMask(cb, pos)
            /\ \A i \in 1..Len(turnList) :
                  turnList[i].piece.type # King =>
                      turnList[i].to \in EvasionMask(cb, pos)

\* The queen gives check from three fields away on a diagonal, and a piece
\* other than the king has a move into the mask.
DiagonalCheckAnswered ==
    /\ Checkers(cb) \cap cb.bb[togglePlayerColor(cb.nextPlayer)][Queen] # {}
    /\ Cardinality(Checkers(cb)) = 1
    /\ \E pos \in Checkers(cb) :
          /\ Cardinality(EvasionMask(cb, pos)) = 3
          /\ \E f \in cb.bb[cb.nextPlayer][King] : OnDiagonal(pos, f)
    /\ \E i \in 1..Len(turnList) : turnList[i].piece.type # King

\* The steps in file and rank of a ray helper's direction.
FileStep(helper) ==
    IF helper \in {"getBitsE", "getBitsNE", "getBitsSE"} THEN 1
    ELSE IF helper \in {"getBitsW", "getBitsNW", "getBitsSW"} THEN -1 ELSE 0

RankStep(helper) ==
    IF helper \in {"getBitsN", "getBitsNE", "getBitsNW"} THEN 1
    ELSE IF helper \in {"getBitsS", "getBitsSE", "getBitsSW"} THEN -1 ELSE 0

\* The fields strictly in the helper's direction from the field, up to the
\* edge of the board.
RaySquares(helper, field) ==
    {g \in Fields :
        \E k \in 1..7 :
            /\ g % 8 = (field % 8) + k * FileStep(helper)
            /\ g \div 8 = (field \div 8) + k * RankStep(helper)}

\* C23: each of the eight ray helpers, called with the bitboard of one piece
\* on any field, returns exactly the fields strictly in its direction from
\* that field up to the edge of the board, and no field across an edge.
RaysStopAtTheEdge ==
    ray.helper \in RayHelpers => ray.bits = RaySquares(ray.helper, ray.field)

\* getBitsW was called for a1, where its shift count is 64, and getBitsE for
\* a field of file H would be the same case: the ray is empty.
WestRayOfA1Empty ==
    ray.helper = "getBitsW" /\ ray.field = 0 /\ ray.bits = {}

\* C24: every shift of a 64-bit bitboard that a ray helper or a mask helper
\* performs has a count from 0 to 63.
ShiftCountsWithinWidth ==
    \A count \in ray.shifts : 0 <= count /\ count <= 63

\* The fields that a rook, bishop or queen on the field reaches: on each of
\* its lines the empty fields before the first occupied one, and that one
\* when a piece of the opponent stands on it.
SliderReach(helper, field, allOppPieces, allPieces) ==
    {g \in Fields :
        /\ \/ helper \in {"calcRookTurns", "calcQueenTurns"} /\ OnLine(field, g)
           \/ helper \in {"calcBishopTurns", "calcQueenTurns"} /\ OnDiagonal(field, g)
        /\ Between(field, g) \cap allPieces = {}
        /\ g \notin allPieces \/ g \in allOppPieces}

\* C25: for one rook, bishop or queen on a field among other pieces, the
\* computed bitboard holds on each ray of the piece exactly the empty fields
\* before the first occupied field, and that field if and only if a piece of
\* the opponent stands on it; the queen's bitboard is the union of the rook's
\* and the bishop's for the same field and pieces.
SlidersStopAtFirstPiece ==
    ray.helper \in SliderHelpers =>
        /\ ray.bits = SliderReach(ray.helper, ray.field, ray.allOppPieces, ray.allPieces)
        /\ ray.helper = "calcQueenTurns" =>
              ray.bits = calcRookTurns({ray.field}, ray.allOppPieces, ray.allPieces)
                         \cup calcBishopTurns({ray.field}, ray.allOppPieces,
                                              ray.allPieces)

\* A queen in the centre with a piece of its own side on one of its lines and
\* a piece of the opponent on another: it stops before the one and takes the
\* other.
QueenBlockedAndCapturing ==
    /\ ray.helper = "calcQueenTurns"
    /\ ray.field = 27
    /\ \E own \in ray.allPieces \ (ray.allOppPieces \cup {27}) :
          /\ OnLine(27, own) \/ OnDiagonal(27, own)
          /\ own \notin ray.bits
    /\ \E opp \in ray.allOppPieces :
          /\ opp \in ray.bits
          /\ \E g \in Fields : opp \in Between(27, g)

\* The game states that stand n turns after one of the given states.
RECURSIVE StatesAfter(_, _)
StatesAfter(states, n) ==
    IF n = 0 THEN states
    ELSE StatesAfter(UNION {{GameStateApplyTurn(state, state.turnList[i]) :
                                i \in 1..Len(state.turnList)} :
                            state \in {s \in states : ~isGameOver(s.board)}},
                     n - 1)

\* The score of the search without table, cutoff and ordering for a state
\* that stands at the given depth, with the given number of plies left.
PlainValue(state, depth, pliesLeft) ==
    search_recurse(state, depth, depth + pliesLeft, MIN_SCORE, MAX_SCORE,
                   EmptyTable, PlainNegamax).score

\* The entry holds for the state: an exact score is the state's value, a
\* lower bound is not above it and an upper bound not below it.
EntrySoundFor(entry, value) ==
    CASE entry.boundType = "EXACT" -> entry.score = value
      [] entry.boundType = "LOWER" -> entry.score <= value
      [] entry.boundType = "UPPER" -> entry.score >= value
      [] OTHER -> FALSE

\* The entries of the table that record one of the given numbers of plies
\* are sound, each for a state of its hash that stands as many turns after
\* the root as the node that stored it.
EntriesSound(table, root, maxDepth, plies) ==
    \A pliesLeft \in plies :
        \E states \in {StatesAfter({root}, maxDepth - pliesLeft)} :
            \A hash \in {h \in DOMAIN table : table[h].depth = pliesLeft} :
                \E state \in states :
                    /\ state.board.hash = hash
                    /\ EntrySoundFor(table[hash],
                                     PlainValue(state, maxDepth - pliesLeft, pliesLeft))

\* C26: every entry that the search has left in the transposition table is
\* sound for a position of its hash at the depth where it was stored and for
\* the plies it records: exact entries hold the plain negamax value of that
\* position for that many plies, lower bounds are not above it and upper
\* bounds not below it.
StoredEntriesAreSound ==
    (nm.phase = "returned" /\ nm.inst.TRANSPOSITION_TABLES_ENABLED) =>
        EntriesSound(nm.table, [board |-> cb, turnList |-> turnList], nm.maxDepth,
                     1..nm.maxDepth)

\* C26 amended: every entry that records one ply is sound: its exact score
\* is the best score of the position's turns, its lower bound is not above
\* that score and its upper bound not below it.
StoredOnePlyEntriesAreSound ==
    (nm.phase = "returned" /\ nm.inst.TRANSPOSITION_TABLES_ENABLED) =>
        EntriesSound(nm.table, [board |-> cb, turnList |-> turnList], nm.maxDepth, {1})

\* A search of several plies with cutoffs has left entries of one ply in the
\* table, a lower bound and an exact score among them.
OnePlyBoundsStored ==
    /\ nm.phase = "returned"
    /\ nm.inst.TRANSPOSITION_TABLES_ENABLED /\ nm.inst.AB_CUTOFF_ENABLED
    /\ nm.maxDepth >= 3
    /\ \E hash \in DOMAIN nm.table :
          nm.table[hash].depth = 1 /\ nm.table[hash].boundType = "LOWER"
    /\ \E hash \in DOMAIN nm.table :
          nm.table[hash].depth = 1 /\ nm.table[hash].boundType = "EXACT"

\* The turns of the piece on the field when neither check nor attacked
\* fields are looked at.
PseudoTurns(board, type, pos) ==
    bitBoardToTurns(Piece(board.nextPlayer, type), pos,
                    calcMoveTurns(Piece(board.nextPlayer, type), {pos}, {}, board))

\* After the turn the king of the player who made it is not attacked.
LeavesKingSafe(board, turn) ==
    \A after \in {applyTurn(board, turn)} :
        \A f \in after.bb[board.nextPlayer][King] :
            ~Attacked(after, after.nextPlayer, f)

\* The player to move has a legal move of chess.
HasLegalTurn(board) ==
    \E type \in {King, Queen, Bishop, Knight, Rook, Pawn} :
        \E pos \in board.bb[board.nextPlayer][type] :
            \E i \in DOMAIN PseudoTurns(board, type, pos) :
                LeavesKingSafe(board, PseudoTurns(board, type, pos)[i])

\* C27: when the generator has set the checkmate flag of the player to move,
\* that player has no legal move, an en-passant capture of a checking pawn
\* included.
CheckmateFlagMeansNoLegalTurn ==
    cb.checkmate[cb.nextPlayer] => ~HasLegalTurn(cb)

\* C28: once a poll of the running search has read the abort flag as true,
\* the search stores no further entry in the transposition table.
NoStoreOnceAbortSeen ==
    [][nm.seen => nm'.table = nm.table]_vars

\* C29: a search() of one ply or more on a game that is not over, not
\* aborted, returns a turn of the root state's turn list, on the empty table
\* of a new instance and on the table that earlier searches of the instance
\* have filled; and no entry has been stored without a turn.
SearchReturnsListedTurn ==
    nm.phase = "returned" =>
        /\ (~isGameOver(cb) /\ nm.maxDepth >= 1) =>
              /\ nm.result.turn # NoTurn
              /\ InList(turnList, nm.result.turn)
        /\ \A hash \in DOMAIN nm.table : nm.table[hash].turn # NoTurn

\* The second search of an instance has taken its result from the entry that
\* the first search stored for the position the game has come to.
ResultTakenFromTable ==
    /\ nm.phase = "returned"
    /\ nm.calls = 2
    /\ ply = 1
    /\ ~isGameOver(cb)
    /\ cb.hash \in DOMAIN nm.table
    /\ nm.table[cb.hash].depth = 1 /\ nm.maxDepth = 1
    /\ nm.table[cb.hash].boundType = "EXACT"
    /\ nm.result = NegamaxResult(nm.table[cb.hash].score, nm.table[cb.hash].turn)
    /\ InList(turnList, nm.result.turn)


\* The corner of the rook that castles with the king going to the field `to`.
CastleCorner(to) ==
    CASE to = 6 -> 7
      [] to = 2 -> 0
      [] to = 62 -> 63
      [] to = 58 -> 56

\* The king of the turn's player stands on its home field and a rook of the
\* same player on the corner of the castle's side.
KingAndRookAtHome(board, turn) ==
    /\ turn.from = (IF turn.piece.player = White THEN 4 ELSE 60)
    /\ turn.from \in board.bb[turn.piece.player][King]
    /\ turn.to \in (IF turn.piece.player = White THEN {6, 2} ELSE {62, 58})
    /\ CastleCorner(turn.to) \in board.bb[turn.piece.player][Rook]

\* C30: in a game from the standard start played with turns of the
\* generator's lists, every castle turn in the list of the player to move
\* finds that player's king on e1/e8 and one of his rooks on the corner of
\* the castle's side (h for the short castle, a for the long one).
CastleFindsKingAndRookAtHome ==
    origin = "start" =>
        \A i \in 1..Len(turnList) :
            turnList[i].action = "Castle" =>
                /\ turnList[i].piece = Piece(cb.nextPlayer, King)
                /\ KingAndRookAtHome(cb, turnList[i])

\* A game from the start has gone on and Black, whose king's side is
\* cleared, finds the short castle in his list.
BlackCastleListedInGame ==
    /\ origin = "start"
    /\ ply = 1
    /\ cb.nextPlayer = Black
    /\ InList(turnList, CastleTurn(Black, 62))
    /\ 63 \in cb.bb[Black][Rook]
====
